---- MODULE Spec2Model ----
(***************************************************************************)
(* PHTS request approval workflow (backend/src/services/requestService.ts) *)
(* and the eligibility table it finalizes into (eligibilityService.ts).    *)
(*                                                                         *)
(* The relational store is modelled table by table:                        *)
(*   requests        pts_requests, a sequence indexed by request_id        *)
(*   request_actions pts_request_actions, grouped by request_id; the rows  *)
(*                   of one request are kept in action_id order            *)
(*   eligibility     pts_employee_eligibility, in insertion order          *)
(*   signatures      pts_user_signatures, the user_ids that have a row     *)
(* Every service function runs in one database transaction: an action      *)
(* computes the writes on a copy of the tables and either commits the copy *)
(* or, when the function throws, keeps the tables as they were (rollback). *)
(* `last` is the outcome the last service call returned to its caller.     *)
(*                                                                         *)
(* The payroll period service (services/payroll/calculator.ts, class       *)
(* PayrollService) adds:                                                   *)
(*   periods         pts_periods, a sequence indexed by period_id          *)
(*   payouts         pts_payouts in insertion order, each row with its     *)
(*                   pts_payout_items rows                                 *)
(*   source          what the monthly and the retroactive calculation      *)
(*                   compute for a citizen from the reference data         *)
(***************************************************************************)
EXTENDS Integers, Sequences, FiniteSets, TLC

\* ------------------------------------------------------------------ bounds
\* requests ever created under Spec and under SpecBatch; ids in one batch
MaxRequests == 1
MaxBatchRequests == 2
MaxBatch == 2
\* requests ever created under SpecEligibility
MaxEligibilityRequests == 2

\* --------------------------------------------------------- nullable values
\* A nullable column or an optional argument is a sequence of length <= 1.
None == <<>>
Some(v) == <<v>>
IsNull(x) == x = <<>>
Val(x) == x[1]

\* --------------------------------------------------------------- constants
DRAFT == "DRAFT"
PENDING == "PENDING"
APPROVED == "APPROVED"
REJECTED == "REJECTED"
CANCELLED == "CANCELLED"
RETURNED == "RETURNED"
RequestStatus == {DRAFT, PENDING, APPROVED, REJECTED, CANCELLED, RETURNED}

SUBMIT == "SUBMIT"
APPROVE == "APPROVE"
REJECT == "REJECT"
RETURN == "RETURN"
ActionType == {SUBMIT, APPROVE, REJECT, RETURN}

STEP_ROLE_MAP ==
  [s \in 1..5 |-> CASE s = 1 -> "HEAD_DEPT"
                    [] s = 2 -> "PTS_OFFICER"
                    [] s = 3 -> "HEAD_HR"
                    [] s = 4 -> "DIRECTOR"
                    [] s = 5 -> "HEAD_FINANCE"]

\* STEP_ROLE_MAP[step] as JavaScript reads it: undefined outside the table.
StepRole(s) == IF s \in DOMAIN STEP_ROLE_MAP THEN Some(STEP_ROLE_MAP[s]) ELSE None

\* ROLE_STEP_MAP[role]: undefined for a role that approves nothing.
ROLE_STEP_MAP(role) ==
  IF \E s \in DOMAIN STEP_ROLE_MAP : STEP_ROLE_MAP[s] = role
  THEN Some(CHOOSE s \in DOMAIN STEP_ROLE_MAP : STEP_ROLE_MAP[s] = role)
  ELSE None

\* ------------------------------------------------ users and reference data
\* The users table: one applicant, one approver per step, and a second
\* director who never stored a signature.
Role ==
  [u \in {"u1", "hd", "po", "hh", "dr", "hf", "dr2"} |->
     CASE u = "u1" -> "USER"
       [] u = "hd" -> "HEAD_DEPT"
       [] u = "po" -> "PTS_OFFICER"
       [] u = "hh" -> "HEAD_HR"
       [] u = "dr" -> "DIRECTOR"
       [] u = "hf" -> "HEAD_FINANCE"
       [] u = "dr2" -> "DIRECTOR"]
Users == DOMAIN Role
CitizenOf(u) == "c_" \o u

\* pts_master_rates: the active catalogue the finalization looks a rate up in.
MasterRates ==
  { [rate_id |-> 1, profession_code |-> "NURSE", amount |-> 1500, is_active |-> TRUE],
    [rate_id |-> 2, profession_code |-> "DOCTOR", amount |-> 5000, is_active |-> TRUE],
    [rate_id |-> 3, profession_code |-> "NURSE", amount |-> 7777, is_active |-> FALSE] }

\* findRecommendedRate(citizenId): the classification heuristic, a function of
\* the employee profile; the applicant is classified as NURSE group 1.
findRecommendedRate(citizenId) ==
  IF citizenId = CitizenOf("u1")
  THEN Some(CHOOSE r \in MasterRates : r.rate_id = 1)
  ELSE None

\* ------------------------------------------------------------ input ranges
Creators == {"u1", "dr2"}
Amounts == {None, Some(0), Some(1500), Some(7777)}
EffectiveDates == {None, Some(10)}
SP == " "
\* comment arguments: undefined, "", " " and "x"
Comments == {None, Some(<<>>), Some(<<SP>>), Some(<<"x">>)}
\* approveRequest is called without a comment or with an empty one, approveBatch
\* without a comment or with "x"
ApproveComments == {None, Some(<<>>)}
BatchComments == {None, Some(<<"x">>)}

RECURSIVE SeqsUpTo(_, _)
SeqsUpTo(S, n) ==
  IF n = 0 THEN {<<>>}
  ELSE LET shorter == SeqsUpTo(S, n - 1)
       IN shorter \cup {Append(q, x) : q \in {p \in shorter : Len(p) = n - 1}, x \in S}
\* the controller refuses an empty requestIds array
BatchInputs(ids) == SeqsUpTo(ids, MaxBatch) \ {<<>>}

\* -------------------------------------------------------- string functions
\* String.prototype.trim over the two-character alphabet {SP, "x"}.
RECURSIVE TrimLeft(_)
TrimLeft(s) == IF s # <<>> /\ Head(s) = SP THEN TrimLeft(Tail(s)) ELSE s
RECURSIVE TrimRight(_)
TrimRight(s) ==
  IF s # <<>> /\ s[Len(s)] = SP THEN TrimRight(SubSeq(s, 1, Len(s) - 1)) ELSE s
Trim(s) == TrimRight(TrimLeft(s))

\* JavaScript truthiness of an optional string: undefined and "" are falsy.
Falsy(comment) == IsNull(comment) \/ Val(comment) = <<>>
\* comment || null
OrNull(comment) == IF Falsy(comment) THEN None ELSE comment
\* the comment test without the trim
MissingComment_NoTrim(comment) == Falsy(comment)
\* !comment || comment.trim() === ''
MissingComment(comment) == Falsy(comment) \/ Trim(Val(comment)) = <<>>

\* ------------------------------------------------------ payroll calculations
\* The employees the payroll runs over.
PayrollCitizens == {CitizenOf("u1"), CitizenOf("hd"), CitizenOf("po")}

\* What calculateMonthly and calculateRetroactive return for one citizen and
\* one month, as far as the period run reads it: netPayment, the day counts, the
\* retroactive differences (retroactiveTotal is their sum), and which call, if
\* any, throws for this citizen. Amounts are in whole baht.
CalcResult(net, days, deducted, retro, fails) ==
  [netPayment |-> net, eligibleDays |-> days, totalDeductionDays |-> deducted,
   retroDetails |-> retro, fails |-> fails]
Paid == CalcResult(100, 30, 0, <<>>, "")
Nothing == CalcResult(0, 0, 30, <<>>, "")
RetroAdd == CalcResult(0, 0, 30, <<50>>, "")
RetroDeduct == CalcResult(0, 0, 30, <<-50>>, "")
PaidOverDeduct == CalcResult(100, 30, 0, <<-120, -80>>, "")
FailsCalculate == CalcResult(0, 0, 0, <<>>, "calculateMonthly")
FailsSave == CalcResult(100, 30, 0, <<50>>, "savePayout")

\* the results the reference data of each citizen can lead to
SourceResults ==
  [c \in PayrollCitizens |->
     CASE c = CitizenOf("u1") -> {Paid, Nothing, RetroDeduct, FailsSave}
       [] c = CitizenOf("hd") -> {RetroAdd, PaidOverDeduct, FailsCalculate}
       [] c = CitizenOf("po") -> {Paid}]
Sources == {f \in [PayrollCitizens -> UNION {SourceResults[c] : c \in PayrollCitizens}] :
              \A c \in PayrollCitizens : f[c] \in SourceResults[c]}
InitialSource ==
  [c \in PayrollCitizens |-> IF c = CitizenOf("hd") THEN RetroAdd ELSE Paid]

VARIABLES requests, request_actions, eligibility, signatures, last,
          periods, payouts, source, tx, locks, hr, redis, now
vars == <<requests, request_actions, eligibility, signatures, last,
          periods, payouts, source, tx, locks, hr, redis, now>>

\* The service calls in flight (tx: per connection, where the call stands and
\* what it has read), the locks held (locks), and the personnel records the
\* monthly calculation reads (hr). The specifications of whole calls keep no
\* call in flight. The Redis keys (redis: the value of each key and the time
\* it expires at, None when the key is not set) and the time in seconds (now).
Connections == {"c1", "c2"}
SYNC_LOCK_KEY == "system:sync:lock"
SYNC_RESULT_KEY == "system:sync:last_result"
NoKeys == [k \in {SYNC_LOCK_KEY, SYNC_RESULT_KEY} |-> None]
NoCall == [pc |-> "idle", op |-> ""]
NoCalls == [c \in Connections |-> NoCall]
NoRecords == [movements |-> <<>>, licenses |-> <<>>, deductions |-> <<>>,
              position_name |-> "", eligibilities |-> <<>>]
Idle == UNCHANGED <<tx, locks, hr, redis, now>>

\* The tables one transaction reads and writes.
DB == [requests |-> requests, request_actions |-> request_actions,
       eligibility |-> eligibility]

\* What a call returned: the function and the request id it was called on
\* (for approveBatch the caller's role and the requestIds instead), the error
\* it threw or OK, approveBatch's success and failed lists, and the request ids
\* finalizeRequest was called for.
OK == "ok"
Result(op, id, err, finalized) ==
  [op |-> op, id |-> id, role |-> "", ids |-> <<>>, err |-> err,
   success |-> <<>>, failed |-> <<>>, finalized |-> finalized]
Ok(op, id) == Result(op, id, OK, {})
Err(op, id, err) == Result(op, id, err, {})
BatchResult(role, ids, err, success, failed, finalized) ==
  [op |-> "approveBatch", id |-> 0, role |-> role, ids |-> ids, err |-> err,
   success |-> success, failed |-> failed, finalized |-> finalized]

Commit(db) ==
  /\ requests' = db.requests
  /\ request_actions' = db.request_actions
  /\ eligibility' = db.eligibility

Rollback == UNCHANGED <<requests, request_actions, eligibility>>

Init ==
  /\ requests = <<>>
  /\ request_actions = <<>>
  /\ eligibility = <<>>
  /\ signatures = Users \ {"dr2"}
  /\ last = Ok("init", 0)
  /\ periods = <<>>
  /\ payouts = <<>>
  /\ source = InitialSource
  /\ tx = NoCalls
  /\ locks = {}
  /\ redis = NoKeys
  /\ now = 0
  /\ hr = NoRecords

\* --------------------------------------------------------------- createRequest
createRequest(userId, requested_amount, effective_date) ==
  /\ UNCHANGED signatures
  /\ IF userId \notin signatures
     THEN /\ Rollback
          /\ last' = Err("createRequest", 0, "signature")
     ELSE IF IsNull(requested_amount)
     THEN /\ Rollback
          /\ last' = Err("createRequest", 0, "requested_amount is required")
     ELSE IF IsNull(effective_date)
     THEN /\ Rollback
          /\ last' = Err("createRequest", 0, "effective_date is required")
     ELSE /\ requests' = Append(requests,
                [request_id |-> Len(requests) + 1,
                 user_id |-> userId,
                 citizen_id |-> CitizenOf(userId),
                 requested_amount |-> requested_amount,
                 effective_date |-> effective_date,
                 status |-> DRAFT,
                 current_step |-> 1])
          /\ request_actions' = Append(request_actions, <<>>)
          /\ UNCHANGED eligibility
          /\ last' = Ok("createRequest", Len(requests) + 1)

\* --------------------------------------------------------------- submitRequest
\* the action row logged at the step the request moves to
ActionRow_NextStep(requestId, actorId, stepNo, action, comment, snapshot) ==
  [request_id |-> requestId, actor_id |-> actorId, step_no |-> stepNo + 1,
   action |-> action, comment |-> comment, signature_snapshot |-> snapshot]

ActionRow(requestId, actorId, stepNo, action, comment, snapshot) ==
  [request_id |-> requestId, actor_id |-> actorId, step_no |-> stepNo,
   action |-> action, comment |-> comment, signature_snapshot |-> snapshot]

SetRequest(db, requestId, status, step) ==
  [db EXCEPT !.requests[requestId].status = status,
             !.requests[requestId].current_step = step]

InsertAction(db, row) ==
  [db EXCEPT !.request_actions[row.request_id] = Append(@, row)]

\* submitRequest selecting the request by request_id alone
submitRequest_AnyUser(requestId, userId) ==
  /\ UNCHANGED signatures
  /\ IF requestId \notin DOMAIN requests
     THEN /\ Rollback
          /\ last' = Err("submitRequest", requestId, "Request not found or you do not have permission")
     ELSE IF requests[requestId].status # DRAFT
     THEN /\ Rollback
          /\ last' = Err("submitRequest", requestId, "Cannot submit request with status")
     ELSE /\ Commit(InsertAction(SetRequest(DB, requestId, PENDING, 1),
                                 ActionRow(requestId, userId, 1, SUBMIT, None, None)))
          /\ last' = Ok("submitRequest", requestId)

submitRequest(requestId, userId) ==
  /\ UNCHANGED signatures
  /\ IF ~(requestId \in DOMAIN requests /\ requests[requestId].user_id = userId)
     THEN /\ Rollback
          /\ last' = Err("submitRequest", requestId, "Request not found or you do not have permission")
     ELSE IF requests[requestId].status # DRAFT
     THEN /\ Rollback
          /\ last' = Err("submitRequest", requestId, "Cannot submit request with status")
     ELSE /\ Commit(InsertAction(SetRequest(DB, requestId, PENDING, 1),
                                 ActionRow(requestId, userId, 1, SUBMIT, None, None)))
          /\ last' = Ok("submitRequest", requestId)

\* ------------------------------------------------------------ createEligibility
\* UPDATE ... SET is_active = 0, expiry_date = DATE_SUB(?, INTERVAL 1 DAY)
\*   WHERE citizen_id = ? AND is_active = 1 AND effective_date <= ?
\* INSERT ... (citizen_id, master_rate_id, request_id, effective_date, is_active = 1)
createEligibility(db, citizenId, masterRateId, effectiveDate, requestId) ==
  LET closed ==
        [i \in DOMAIN db.eligibility |->
           LET e == db.eligibility[i]
           IN IF e.citizen_id = citizenId /\ e.is_active /\ e.effective_date <= effectiveDate
              THEN [e EXCEPT !.is_active = FALSE, !.expiry_date = Some(effectiveDate - 1)]
              ELSE e]
  IN [db EXCEPT !.eligibility =
        Append(closed, [citizen_id |-> citizenId,
                        master_rate_id |-> masterRateId,
                        request_id |-> requestId,
                        effective_date |-> effectiveDate,
                        expiry_date |-> None,
                        is_active |-> TRUE])]

\* -------------------------------------------------------------- finalizeRequest
\* The outcome of a step inside a transaction: the tables as written so far
\* and, when the step threw, the error.
Done(db) == [db |-> db, threw |-> FALSE, err |-> OK]
Threw(db, err) == [db |-> db, threw |-> TRUE, err |-> err]

\* SELECT rate_id FROM pts_master_rates WHERE amount = ? AND is_active = 1 [AND profession_code = ?]
RatesByAmount(amount, professionCode) ==
  {r \in MasterRates : /\ r.amount = amount
                       /\ r.is_active
                       /\ (IsNull(professionCode) \/ r.profession_code = Val(professionCode))}

finalizeRequest(db, requestId) ==
  LET request == db.requests[requestId]
      citizenId == request.citizen_id
      amount == request.requested_amount
  IN IF ~IsNull(amount) /\ Val(amount) # 0 /\ Val(amount) > 0
     THEN IF IsNull(request.effective_date)
          THEN Threw(db, "effective_date is required for finalization")
          ELSE
            LET recommendedRate == findRecommendedRate(citizenId)
                professionCode ==
                  IF IsNull(recommendedRate) THEN None
                  ELSE Some(Val(recommendedRate).profession_code)
                narrowed == RatesByAmount(Val(amount), professionCode)
                rates == IF narrowed = {} THEN RatesByAmount(Val(amount), None) ELSE narrowed
            IN IF ~IsNull(recommendedRate) /\ Val(recommendedRate).amount = Val(amount)
               THEN Done(createEligibility(db, citizenId, Val(recommendedRate).rate_id,
                                           Val(request.effective_date), requestId))
               ELSE IF rates = {}
               THEN Threw(db, "Master Rate not found")
               ELSE Done(createEligibility(db, citizenId, (CHOOSE r \in rates : TRUE).rate_id,
                                           Val(request.effective_date), requestId))
     ELSE Done(db)

\* ------------------------------------------------------------- _performApproval
\* _performApproval closing the request one step early (nextStep >= 5)
performApproval_ClosesEarly(db, request, requestId, actorId, comment, signatureSnapshot) ==
  LET currentStep == request.current_step
      nextStep == currentStep + 1
      logged == InsertAction(db, ActionRow(requestId, actorId, currentStep, APPROVE,
                                           comment, Some(signatureSnapshot)))
  IN IF nextStep >= 5
     THEN LET fin == finalizeRequest(SetRequest(logged, requestId, APPROVED, 6), requestId)
          IN [db |-> fin.db, threw |-> fin.threw, err |-> fin.err, finalized |-> TRUE]
     ELSE [db |-> SetRequest(logged, requestId, request.status, nextStep),
           threw |-> FALSE, err |-> OK, finalized |-> FALSE]

\* _performApproval closing the request without moving it to step 6
performApproval_KeepsStep(db, request, requestId, actorId, comment, signatureSnapshot) ==
  LET currentStep == request.current_step
      nextStep == currentStep + 1
      logged == InsertAction(db, ActionRow(requestId, actorId, currentStep, APPROVE,
                                           comment, Some(signatureSnapshot)))
  IN IF nextStep > 5
     THEN LET fin == finalizeRequest(SetRequest(logged, requestId, APPROVED, currentStep),
                                     requestId)
          IN [db |-> fin.db, threw |-> fin.threw, err |-> fin.err, finalized |-> TRUE]
     ELSE [db |-> SetRequest(logged, requestId, request.status, nextStep),
           threw |-> FALSE, err |-> OK, finalized |-> FALSE]

\* INSERT the APPROVE row at the current step, then either close the request
\* (step 5 -> APPROVED, step 6, finalizeRequest) or move it to the next step.
\* `finalized` tells whether finalizeRequest was called.
performApproval(db, request, requestId, actorId, comment, signatureSnapshot) ==
  LET currentStep == request.current_step
      nextStep == currentStep + 1
      logged == InsertAction(db, ActionRow(requestId, actorId, currentStep, APPROVE,
                                           comment, Some(signatureSnapshot)))
  IN IF nextStep > 5
     THEN LET fin == finalizeRequest(SetRequest(logged, requestId, APPROVED, 6), requestId)
          IN [db |-> fin.db, threw |-> fin.threw, err |-> fin.err, finalized |-> TRUE]
     ELSE [db |-> SetRequest(logged, requestId, request.status, nextStep),
           threw |-> FALSE, err |-> OK, finalized |-> FALSE]

\* a placeholder image for an approver without a signature row
SignatureOf_Placeholder(actorId) ==
  IF actorId \in signatures THEN Some("sig_" \o actorId) ELSE Some("sig_blank")

\* SELECT signature_image FROM pts_user_signatures WHERE user_id = ? LIMIT 1
SignatureOf(actorId) == IF actorId \in signatures THEN Some("sig_" \o actorId) ELSE None

\* ---------------------------------------------------------------- approveRequest
\* approveRequest without the status guard (lines 422-424 left out)
approveRequest_NoStatusGuard(requestId, actorId, actorRole, comment) ==
  /\ UNCHANGED signatures
  /\ IF requestId \notin DOMAIN requests
     THEN /\ Rollback
          /\ last' = Err("approveRequest", requestId, "Request not found")
     ELSE IF StepRole(requests[requestId].current_step) # Some(actorRole)
     THEN /\ Rollback
          /\ last' = Err("approveRequest", requestId, "Invalid approver role")
     ELSE IF IsNull(SignatureOf(actorId))
     THEN /\ Rollback
          /\ last' = Err("approveRequest", requestId, "Approver signature is required")
     ELSE LET res == performApproval(DB, requests[requestId], requestId, actorId,
                                     OrNull(comment), Val(SignatureOf(actorId)))
          IN IF res.threw
             THEN /\ Rollback
                  /\ last' = Result("approveRequest", requestId, res.err,
                                    IF res.finalized THEN {requestId} ELSE {})
             ELSE /\ Commit(res.db)
                  /\ last' = Result("approveRequest", requestId, OK,
                                    IF res.finalized THEN {requestId} ELSE {})

\* approveRequest whose catch block commits instead of rolling back
approveRequest_CommitsOnThrow(requestId, actorId, actorRole, comment) ==
  /\ UNCHANGED signatures
  /\ IF requestId \notin DOMAIN requests
     THEN /\ Rollback
          /\ last' = Err("approveRequest", requestId, "Request not found")
     ELSE IF requests[requestId].status # PENDING
     THEN /\ Rollback
          /\ last' = Err("approveRequest", requestId, "Cannot approve request with status")
     ELSE IF StepRole(requests[requestId].current_step) # Some(actorRole)
     THEN /\ Rollback
          /\ last' = Err("approveRequest", requestId, "Invalid approver role")
     ELSE IF IsNull(SignatureOf(actorId))
     THEN /\ Rollback
          /\ last' = Err("approveRequest", requestId, "Approver signature is required")
     ELSE LET res == performApproval(DB, requests[requestId], requestId, actorId,
                                     OrNull(comment), Val(SignatureOf(actorId)))
          IN /\ Commit(res.db)
             /\ last' = Result("approveRequest", requestId, res.err,
                               IF res.finalized THEN {requestId} ELSE {})

approveRequest(requestId, actorId, actorRole, comment) ==
  /\ UNCHANGED signatures
  /\ IF requestId \notin DOMAIN requests
     THEN /\ Rollback
          /\ last' = Err("approveRequest", requestId, "Request not found")
     ELSE IF requests[requestId].status # PENDING
     THEN /\ Rollback
          /\ last' = Err("approveRequest", requestId, "Cannot approve request with status")
     ELSE IF StepRole(requests[requestId].current_step) # Some(actorRole)
     THEN /\ Rollback
          /\ last' = Err("approveRequest", requestId, "Invalid approver role")
     ELSE IF IsNull(SignatureOf(actorId))
     THEN /\ Rollback
          /\ last' = Err("approveRequest", requestId, "Approver signature is required")
     ELSE LET res == performApproval(DB, requests[requestId], requestId, actorId,
                                     OrNull(comment), Val(SignatureOf(actorId)))
          IN IF res.threw
             THEN /\ Rollback
                  /\ last' = Result("approveRequest", requestId, res.err,
                                    IF res.finalized THEN {requestId} ELSE {})
             ELSE /\ Commit(res.db)
                  /\ last' = Result("approveRequest", requestId, OK,
                                    IF res.finalized THEN {requestId} ELSE {})

\* ----------------------------------------------------------------- rejectRequest
rejectRequest(requestId, actorId, actorRole, comment) ==
  /\ UNCHANGED signatures
  /\ IF requestId \notin DOMAIN requests
     THEN /\ Rollback
          /\ last' = Err("rejectRequest", requestId, "Request not found")
     ELSE IF requests[requestId].status # PENDING
     THEN /\ Rollback
          /\ last' = Err("rejectRequest", requestId, "Cannot reject request with status")
     ELSE IF StepRole(requests[requestId].current_step) # Some(actorRole)
     THEN /\ Rollback
          /\ last' = Err("rejectRequest", requestId, "Invalid approver role")
     ELSE IF MissingComment(comment)
     THEN /\ Rollback
          /\ last' = Err("rejectRequest", requestId, "Rejection reason is required")
     ELSE LET currentStep == requests[requestId].current_step
              logged == InsertAction(DB, ActionRow(requestId, actorId, currentStep, REJECT,
                                                   comment, None))
          IN /\ Commit(SetRequest(logged, requestId, REJECTED, currentStep))
             /\ last' = Ok("rejectRequest", requestId)

\* ----------------------------------------------------------------- returnRequest
\* returnRequest without the first-step guard (lines 567-569 left out)
returnRequest_NoFirstStepGuard(requestId, actorId, actorRole, comment) ==
  /\ UNCHANGED signatures
  /\ IF requestId \notin DOMAIN requests
     THEN /\ Rollback
          /\ last' = Err("returnRequest", requestId, "Request not found")
     ELSE IF requests[requestId].status # PENDING
     THEN /\ Rollback
          /\ last' = Err("returnRequest", requestId, "Cannot return request with status")
     ELSE IF StepRole(requests[requestId].current_step) # Some(actorRole)
     THEN /\ Rollback
          /\ last' = Err("returnRequest", requestId, "Invalid approver role")
     ELSE IF MissingComment(comment)
     THEN /\ Rollback
          /\ last' = Err("returnRequest", requestId, "Return reason is required")
     ELSE LET currentStep == requests[requestId].current_step
              previousStep == currentStep - 1
              logged == InsertAction(DB, ActionRow(requestId, actorId, currentStep, RETURN,
                                                   comment, None))
          IN /\ Commit(SetRequest(logged, requestId, RETURNED, previousStep))
             /\ last' = Ok("returnRequest", requestId)

returnRequest(requestId, actorId, actorRole, comment) ==
  /\ UNCHANGED signatures
  /\ IF requestId \notin DOMAIN requests
     THEN /\ Rollback
          /\ last' = Err("returnRequest", requestId, "Request not found")
     ELSE IF requests[requestId].status # PENDING
     THEN /\ Rollback
          /\ last' = Err("returnRequest", requestId, "Cannot return request with status")
     ELSE IF requests[requestId].current_step <= 1
     THEN /\ Rollback
          /\ last' = Err("returnRequest", requestId, "Cannot return request from the first approval step")
     ELSE IF StepRole(requests[requestId].current_step) # Some(actorRole)
     THEN /\ Rollback
          /\ last' = Err("returnRequest", requestId, "Invalid approver role")
     ELSE IF MissingComment(comment)
     THEN /\ Rollback
          /\ last' = Err("returnRequest", requestId, "Return reason is required")
     ELSE LET currentStep == requests[requestId].current_step
              previousStep == currentStep - 1
              logged == InsertAction(DB, ActionRow(requestId, actorId, currentStep, RETURN,
                                                   comment, None))
          IN /\ Commit(SetRequest(logged, requestId, RETURNED, previousStep))
             /\ last' = Ok("returnRequest", requestId)

\* ------------------------------------------------------------------ approveBatch
\* One iteration of the loop over requestIds: its own transaction on the
\* tables left by the iterations before it. `acc` is the tables as committed
\* so far with the result lists and the ids finalizeRequest was called for.
Failed(acc, requestId, reason) ==
  [acc EXCEPT !.failed = Append(@, [id |-> requestId, reason |-> reason])]

\* the loop body without the status test (lines 672-679 left out)
approveBatchOne_NoStatusTest(acc, requestId, expectedStep, actorId, comment, signatureSnapshot) ==
  IF requestId \notin DOMAIN acc.db.requests
  THEN Failed(acc, requestId, "Request not found")
  ELSE IF acc.db.requests[requestId].current_step # expectedStep
  THEN Failed(acc, requestId, "Not at Step")
  ELSE LET res == performApproval(acc.db, acc.db.requests[requestId], requestId, actorId,
                                  OrNull(comment), signatureSnapshot)
           fin == IF res.finalized THEN acc.finalized \cup {requestId} ELSE acc.finalized
       IN IF res.threw
          THEN [Failed(acc, requestId, "Database error or Finalization failed")
                  EXCEPT !.finalized = fin]
          ELSE [acc EXCEPT !.db = res.db, !.success = Append(@, requestId),
                           !.finalized = fin]

\* the loop body whose catch block does not roll back: the writes made before
\* finalizeRequest threw are committed by the next iteration
approveBatchOne_NoRollback(acc, requestId, expectedStep, actorId, comment, signatureSnapshot) ==
  IF requestId \notin DOMAIN acc.db.requests
  THEN Failed(acc, requestId, "Request not found")
  ELSE IF acc.db.requests[requestId].current_step # expectedStep
  THEN Failed(acc, requestId, "Not at Step")
  ELSE IF acc.db.requests[requestId].status # PENDING
  THEN Failed(acc, requestId, "Status is not PENDING")
  ELSE LET res == performApproval(acc.db, acc.db.requests[requestId], requestId, actorId,
                                  OrNull(comment), signatureSnapshot)
           fin == IF res.finalized THEN acc.finalized \cup {requestId} ELSE acc.finalized
       IN IF res.threw
          THEN [Failed(acc, requestId, "Database error or Finalization failed")
                  EXCEPT !.finalized = fin, !.db = res.db]
          ELSE [acc EXCEPT !.db = res.db, !.success = Append(@, requestId),
                           !.finalized = fin]

approveBatchOne(acc, requestId, expectedStep, actorId, comment, signatureSnapshot) ==
  IF requestId \notin DOMAIN acc.db.requests
  THEN Failed(acc, requestId, "Request not found")
  ELSE IF acc.db.requests[requestId].current_step # expectedStep
  THEN Failed(acc, requestId, "Not at Step")
  ELSE IF acc.db.requests[requestId].status # PENDING
  THEN Failed(acc, requestId, "Status is not PENDING")
  ELSE LET res == performApproval(acc.db, acc.db.requests[requestId], requestId, actorId,
                                  OrNull(comment), signatureSnapshot)
           fin == IF res.finalized THEN acc.finalized \cup {requestId} ELSE acc.finalized
       IN IF res.threw
          THEN [Failed(acc, requestId, "Database error or Finalization failed")
                  EXCEPT !.finalized = fin]
          ELSE [acc EXCEPT !.db = res.db, !.success = Append(@, requestId),
                           !.finalized = fin]

RECURSIVE approveBatchLoop(_, _, _, _, _, _)
approveBatchLoop(acc, requestIds, expectedStep, actorId, comment, signatureSnapshot) ==
  IF requestIds = <<>> THEN acc
  ELSE approveBatchLoop(
         approveBatchOne(acc, Head(requestIds), expectedStep, actorId, comment,
                         signatureSnapshot),
         Tail(requestIds), expectedStep, actorId, comment, signatureSnapshot)

approveBatch(actorId, actorRole, requestIds, comment) ==
  /\ UNCHANGED signatures
  /\ IF IsNull(ROLE_STEP_MAP(actorRole)) \/ Val(ROLE_STEP_MAP(actorRole)) \notin {4, 5}
     THEN /\ Rollback
          /\ last' = BatchResult(actorRole, requestIds,
                                  "Batch approval not supported for role", <<>>, <<>>, {})
     ELSE IF IsNull(SignatureOf(actorId))
     THEN /\ Rollback
          /\ last' = BatchResult(actorRole, requestIds, "Approver signature is required",
                                  <<>>, <<>>, {})
     ELSE LET acc == approveBatchLoop(
                       [db |-> DB, success |-> <<>>, failed |-> <<>>, finalized |-> {}],
                       requestIds, Val(ROLE_STEP_MAP(actorRole)), actorId, comment,
                       Val(SignatureOf(actorId)))
          IN /\ Commit(acc.db)
             /\ last' = BatchResult(actorRole, requestIds, OK, acc.success, acc.failed,
                                     acc.finalized)

\* ------------------------------------------- POST /api/requests/batch-approve
\* restrictTo(...roles): the route middleware lets a request through when the
\* authenticated user's role is one of the listed roles, and answers 403
\* otherwise.
restrictTo(roles, role) == role \in roles

\* router.post('/batch-approve', restrictTo(UserRole.DIRECTOR), ...)
batchApproveRouteRoles == {"DIRECTOR"}

\* the controller: 403 for a role outside allowedRoles, 400 for an empty
\* requestIds array, otherwise the service call; a throw of the service is
\* answered 500 with the error's message, a return 200 with the result lists
approveBatchController(userId, role, requestIds, comment) ==
  IF role \notin {"DIRECTOR", "HEAD_FINANCE"}
  THEN /\ Rollback
       /\ UNCHANGED signatures
       /\ last' = BatchResult(role, requestIds,
                               "403 Only DIRECTOR or HEAD_FINANCE can perform batch approval",
                               <<>>, <<>>, {})
  ELSE IF requestIds = <<>>
  THEN /\ Rollback
       /\ UNCHANGED signatures
       /\ last' = BatchResult(role, requestIds, "400 requestIds must be a non-empty array",
                               <<>>, <<>>, {})
  ELSE approveBatch(userId, role, requestIds, comment)

\* the endpoint: protect (the caller is an authenticated user), the route's
\* restrictTo, then the controller
postBatchApprove(userId, requestIds, comment) ==
  IF ~restrictTo(batchApproveRouteRoles, Role[userId])
  THEN /\ Rollback
       /\ UNCHANGED signatures
       /\ last' = BatchResult(Role[userId], requestIds, "403 route", <<>>, <<>>, {})
  ELSE approveBatchController(userId, Role[userId], requestIds, comment)

\* ------------------------------------------------------------ PayrollService
OPEN == "OPEN"
WAITING_HR == "WAITING_HR"
WAITING_DIRECTOR == "WAITING_DIRECTOR"
CLOSED == "CLOSED"
PeriodStatus == {OPEN, WAITING_HR, WAITING_DIRECTOR, CLOSED}
PeriodActions == {"SUBMIT", "APPROVE_HR", "APPROVE_DIRECTOR", "REJECT"}

\* the tables the request workflow owns and the tables the payroll owns
RequestTablesUnchanged == UNCHANGED <<requests, request_actions, eligibility, signatures>>
PayrollTablesUnchanged == UNCHANGED <<periods, payouts, source>>
PayrollRollback == UNCHANGED <<periods, payouts>>

\* Dates are day numbers in a calendar of 30-day months:
\* LAST_DAY(STR_TO_DATE(CONCAT(year, '-', month, '-01')))
LAST_DAY(year, month) == month * 30

\* getOrCreatePeriod(year, month): the row of that month, inserted OPEN when
\* it is missing
getOrCreatePeriod(year, month) ==
  /\ RequestTablesUnchanged
  /\ UNCHANGED <<payouts, source>>
  /\ IF \E id \in DOMAIN periods :
          periods[id].period_month = month /\ periods[id].period_year = year
     THEN /\ UNCHANGED periods
          /\ last' = Ok("getOrCreatePeriod",
                        CHOOSE id \in DOMAIN periods :
                          periods[id].period_month = month /\ periods[id].period_year = year)
     ELSE /\ periods' = Append(periods,
                [period_id |-> Len(periods) + 1, period_month |-> month,
                 period_year |-> year, status |-> OPEN, closed_at |-> None,
                 total_amount |-> 0, total_headcount |-> 0])
          /\ last' = Ok("getOrCreatePeriod", Len(periods) + 1)

RECURSIVE SumSeq(_)
SumSeq(q) == IF q = <<>> THEN 0 ELSE Head(q) + SumSeq(Tail(q))
Abs(n) == IF n < 0 THEN 0 - n ELSE n

\* calculateRetroactive(citizenId, year, month): the signed differences of the
\* earlier months and their sum; it reads the reference data and the payouts of
\* earlier periods, never the rows of the period being calculated
calculateRetroactive(citizenId) ==
  [totalRetro |-> SumSeq(source[citizenId].retroDetails),
   retroDetails |-> source[citizenId].retroDetails]

\* currentResult after lines 463-467: the monthly result with the retroactive
\* total and details attached
currentResult(citizenId) ==
  [netPayment |-> source[citizenId].netPayment,
   eligibleDays |-> source[citizenId].eligibleDays,
   totalDeductionDays |-> source[citizenId].totalDeductionDays,
   retroactiveTotal |-> calculateRetroactive(citizenId).totalRetro,
   retroDetails |-> calculateRetroactive(citizenId).retroDetails]

\* the pts_payout_items rows savePayout inserts for one payout
PayoutItems(result) ==
  (IF result.netPayment # 0
   THEN <<[item_type |-> "CURRENT", amount |-> result.netPayment]>>
   ELSE <<>>)
  \o (IF Len(result.retroDetails) > 0
      THEN [i \in DOMAIN result.retroDetails |->
              [item_type |-> IF result.retroDetails[i] > 0 THEN "RETROACTIVE_ADD"
                             ELSE "RETROACTIVE_DEDUCT",
               amount |-> Abs(result.retroDetails[i])]]
      ELSE IF result.retroactiveTotal # 0 /\ Abs(result.retroactiveTotal) > 0
      THEN <<[item_type |-> IF result.retroactiveTotal > 0 THEN "RETROACTIVE_ADD"
                            ELSE "RETROACTIVE_DEDUCT",
              amount |-> Abs(result.retroactiveTotal)]>>
      ELSE <<>>)

\* savePayout: one pts_payouts row and its items
savePayout(rows, periodId, citizenId, result) ==
  Append(rows, [period_id |-> periodId, citizen_id |-> citizenId,
                calculated_amount |-> result.netPayment,
                total_payable |-> result.netPayment + result.retroactiveTotal,
                deducted_days |-> result.totalDeductionDays,
                eligible_days |-> result.eligibleDays,
                items |-> PayoutItems(result)])

\* SELECT DISTINCT citizen_id FROM pts_employee_eligibility WHERE is_active = 1
\*   AND effective_date <= LAST_DAY(...), in the order of the first such row
\* the same SELECT without DISTINCT
RECURSIVE DistinctCitizens_Repeated(_, _, _)
DistinctCitizens_Repeated(rows, lastDay, seen) ==
  IF rows = <<>> THEN <<>>
  ELSE LET e == Head(rows)
       IN IF e.is_active /\ e.effective_date <= lastDay
          THEN <<e.citizen_id>> \o DistinctCitizens_Repeated(Tail(rows), lastDay, seen)
          ELSE DistinctCitizens_Repeated(Tail(rows), lastDay, seen)

RECURSIVE DistinctCitizens(_, _, _)
DistinctCitizens(rows, lastDay, seen) ==
  IF rows = <<>> THEN <<>>
  ELSE LET e == Head(rows)
       IN IF e.is_active /\ e.effective_date <= lastDay /\ e.citizen_id \notin seen
          THEN <<e.citizen_id>> \o DistinctCitizens(Tail(rows), lastDay, seen \cup {e.citizen_id})
          ELSE DistinctCitizens(Tail(rows), lastDay, seen)

\* the loop body counting every citizen it calculates, paid or not
calculateOne_CountsEveryCitizen(acc, periodId, citizenId) ==
  IF source[citizenId].fails = "calculateMonthly"
  THEN [acc EXCEPT !.threw = TRUE]
  ELSE LET result == currentResult(citizenId)
           grandTotal == result.netPayment + result.retroactiveTotal
       IN IF grandTotal > 0 \/ result.netPayment > 0
          THEN IF source[citizenId].fails = "savePayout"
               THEN [acc EXCEPT !.payouts = savePayout(@, periodId, citizenId, result),
                                !.threw = TRUE]
               ELSE [acc EXCEPT !.payouts = savePayout(@, periodId, citizenId, result),
                                !.totalAmount = @ + grandTotal,
                                !.headCount = @ + 1]
          ELSE [acc EXCEPT !.headCount = @ + 1]

\* one iteration of the loop over eligibleUsers (lines 460-486)
calculateOne(acc, periodId, citizenId) ==
  IF source[citizenId].fails = "calculateMonthly"
  THEN [acc EXCEPT !.threw = TRUE]
  ELSE LET result == currentResult(citizenId)
           grandTotal == result.netPayment + result.retroactiveTotal
       IN IF grandTotal > 0 \/ result.netPayment > 0
          THEN IF source[citizenId].fails = "savePayout"
               THEN [acc EXCEPT !.payouts = savePayout(@, periodId, citizenId, result),
                                !.threw = TRUE]
               ELSE [acc EXCEPT !.payouts = savePayout(@, periodId, citizenId, result),
                                !.totalAmount = @ + grandTotal,
                                !.headCount = @ + 1]
          ELSE acc

RECURSIVE calculateLoop(_, _, _)
calculateLoop(acc, periodId, eligibleUsers) ==
  IF eligibleUsers = <<>> \/ acc.threw THEN acc
  ELSE calculateLoop(calculateOne(acc, periodId, Head(eligibleUsers)), periodId,
                     Tail(eligibleUsers))

\* DELETE FROM pts_payouts WHERE period_id = ? (the items go with their payout)
DeletePayouts_Skipped(rows, periodId) == rows
DeletePayouts(rows, periodId) == SelectSeq(rows, LAMBDA p : p.period_id # periodId)

\* ------------------------------------------------------ processPeriodCalculation
\* processPeriodCalculation without the status test (lines 439-441 left out)
processPeriodCalculation_AnyStatus(periodId) ==
  /\ RequestTablesUnchanged
  /\ UNCHANGED source
  /\ IF periodId \notin DOMAIN periods
     THEN /\ PayrollRollback
          /\ last' = Err("processPeriodCalculation", periodId, "Period not found")
     ELSE LET year == periods[periodId].period_year
              month == periods[periodId].period_month
              eligibleUsers == DistinctCitizens(eligibility, LAST_DAY(year, month), {})
              acc == calculateLoop([payouts |-> DeletePayouts(payouts, periodId),
                                    totalAmount |-> 0, headCount |-> 0, threw |-> FALSE],
                                   periodId, eligibleUsers)
          IN IF acc.threw
             THEN /\ PayrollRollback
                  /\ last' = Err("processPeriodCalculation", periodId, "calculation failed")
             ELSE /\ payouts' = acc.payouts
                  /\ periods' = [periods EXCEPT ![periodId].total_amount = acc.totalAmount,
                                                 ![periodId].total_headcount = acc.headCount]
                  /\ last' = Ok("processPeriodCalculation", periodId)

\* processPeriodCalculation whose catch block keeps what was written
processPeriodCalculation_NoRollback(periodId) ==
  /\ RequestTablesUnchanged
  /\ UNCHANGED source
  /\ IF periodId \notin DOMAIN periods
     THEN /\ PayrollRollback
          /\ last' = Err("processPeriodCalculation", periodId, "Period not found")
     ELSE IF periods[periodId].status # OPEN
     THEN /\ PayrollRollback
          /\ last' = Err("processPeriodCalculation", periodId, "period is not OPEN")
     ELSE LET year == periods[periodId].period_year
              month == periods[periodId].period_month
              eligibleUsers == DistinctCitizens(eligibility, LAST_DAY(year, month), {})
              acc == calculateLoop([payouts |-> DeletePayouts(payouts, periodId),
                                    totalAmount |-> 0, headCount |-> 0, threw |-> FALSE],
                                   periodId, eligibleUsers)
          IN IF acc.threw
             THEN /\ payouts' = acc.payouts
                  /\ UNCHANGED periods
                  /\ last' = Err("processPeriodCalculation", periodId, "calculation failed")
             ELSE /\ payouts' = acc.payouts
                  /\ periods' = [periods EXCEPT ![periodId].total_amount = acc.totalAmount,
                                                 ![periodId].total_headcount = acc.headCount]
                  /\ last' = Ok("processPeriodCalculation", periodId)

\* One transaction under the row lock of the period: delete the period's
\* payouts, recalculate every eligible citizen, store the totals; any throw
\* rolls all of it back.
processPeriodCalculation(periodId) ==
  /\ RequestTablesUnchanged
  /\ UNCHANGED source
  /\ IF periodId \notin DOMAIN periods
     THEN /\ PayrollRollback
          /\ last' = Err("processPeriodCalculation", periodId, "Period not found")
     ELSE IF periods[periodId].status # OPEN
     THEN /\ PayrollRollback
          /\ last' = Err("processPeriodCalculation", periodId, "period is not OPEN")
     ELSE LET year == periods[periodId].period_year
              month == periods[periodId].period_month
              eligibleUsers == DistinctCitizens(eligibility, LAST_DAY(year, month), {})
              acc == calculateLoop([payouts |-> DeletePayouts(payouts, periodId),
                                    totalAmount |-> 0, headCount |-> 0, threw |-> FALSE],
                                   periodId, eligibleUsers)
          IN IF acc.threw
             THEN /\ PayrollRollback
                  /\ last' = Err("processPeriodCalculation", periodId, "calculation failed")
             ELSE /\ payouts' = acc.payouts
                  /\ periods' = [periods EXCEPT ![periodId].total_amount = acc.totalAmount,
                                                 ![periodId].total_headcount = acc.headCount]
                  /\ last' = Ok("processPeriodCalculation", periodId)

\* ------------------------------------------------------------ updatePeriodStatus
\* updatePeriodStatus accepting SUBMIT from every status
updatePeriodStatus_SubmitAnywhere(periodId, action) ==
  /\ RequestTablesUnchanged
  /\ UNCHANGED <<payouts, source>>
  /\ IF periodId \notin DOMAIN periods
     THEN /\ UNCHANGED periods
          /\ last' = Err("updatePeriodStatus", periodId, "Period not found")
     ELSE LET currentStatus == periods[periodId].status
              nextStatus ==
                IF action = "SUBMIT"
                THEN Some(WAITING_HR)
                ELSE IF action = "APPROVE_HR" /\ currentStatus = WAITING_HR
                THEN Some(WAITING_DIRECTOR)
                ELSE IF action = "APPROVE_DIRECTOR" /\ currentStatus = WAITING_DIRECTOR
                THEN Some(CLOSED)
                ELSE IF action = "REJECT"
                THEN Some(OPEN)
                ELSE None
          IN IF IsNull(nextStatus)
             THEN /\ UNCHANGED periods
                  /\ last' = Err("updatePeriodStatus", periodId,
                               "Invalid action '" \o action \o "' for status '"
                                 \o currentStatus \o "'")
             ELSE /\ periods' =
                       [periods EXCEPT ![periodId].status = Val(nextStatus),
                                       ![periodId].closed_at =
                                         IF Val(nextStatus) = CLOSED THEN Some("NOW") ELSE @]
                  /\ last' = Ok("updatePeriodStatus", periodId)

updatePeriodStatus(periodId, action) ==
  /\ RequestTablesUnchanged
  /\ UNCHANGED <<payouts, source>>
  /\ IF periodId \notin DOMAIN periods
     THEN /\ UNCHANGED periods
          /\ last' = Err("updatePeriodStatus", periodId, "Period not found")
     ELSE LET currentStatus == periods[periodId].status
              nextStatus ==
                IF action = "SUBMIT" /\ currentStatus = OPEN
                THEN Some(WAITING_HR)
                ELSE IF action = "APPROVE_HR" /\ currentStatus = WAITING_HR
                THEN Some(WAITING_DIRECTOR)
                ELSE IF action = "APPROVE_DIRECTOR" /\ currentStatus = WAITING_DIRECTOR
                THEN Some(CLOSED)
                ELSE IF action = "REJECT"
                THEN Some(OPEN)
                ELSE None
          IN IF IsNull(nextStatus)
             THEN /\ UNCHANGED periods
                  /\ last' = Err("updatePeriodStatus", periodId,
                               "Invalid action '" \o action \o "' for status '"
                                 \o currentStatus \o "'")
             ELSE /\ periods' =
                       [periods EXCEPT ![periodId].status = Val(nextStatus),
                                       ![periodId].closed_at =
                                         IF Val(nextStatus) = CLOSED THEN Some("NOW") ELSE @]
                  /\ last' = Ok("updatePeriodStatus", periodId)

\* ---------------------------------------------------------------- performFullSync
\* Redis commands at the time now: a key whose time has passed is gone.
LOCK_TTL_SECONDS == 300
RESULT_TTL_SECONDS == 60 * 60 * 24
ALREADY_IN_PROGRESS == "Synchronization is already in progress. Please wait."
redisGet(key) ==
  IF ~IsNull(redis[key]) /\ Val(redis[key]).expires > now
  THEN Some(Val(redis[key]).value) ELSE None
redisSet(key, value, ttl) ==
  [redis EXCEPT ![key] = Some([value |-> value, expires |-> now + ttl])]
redisDel(key) == [redis EXCEPT ![key] = None]

\* The synchronization job rewrites the licences, leave records and movements
\* of the employees: what the calculations return for a citizen changes. It
\* runs between setting and deleting the lock key, throws when the key is set
\* already, and leaves its result under the result key.
performFullSync(citizenId, result) ==
  /\ RequestTablesUnchanged
  /\ UNCHANGED <<periods, payouts>>
  /\ IF ~IsNull(redisGet(SYNC_LOCK_KEY))
     THEN /\ UNCHANGED <<source, redis>>
          /\ last' = Err("performFullSync", 0, ALREADY_IN_PROGRESS)
     ELSE /\ source' = [source EXCEPT ![citizenId] = result]
          /\ redis' = redisSet(SYNC_RESULT_KEY, "success", RESULT_TTL_SECONDS)
          /\ last' = Ok("performFullSync", 0)

\* ------------------------------------------------------------------- Decimal
\* A Decimal of decimal.js (not negative here): the digits of its coefficient,
\* most significant first and without leading zeros, and the power of ten of
\* the last digit; <<>> is zero. Every operation rounds its exact result to
\* PRECISION significant digits, half up.
PRECISION == 20
ZeroDecimal == [digits |-> <<>>, exp |-> 0]
Zeros(k) == [i \in 1..k |-> 0]
Front(d) == SubSeq(d, 1, Len(d) - 1)
RECURSIVE DigitsOf(_)
DigitsOf(n) == IF n = 0 THEN <<>> ELSE Append(DigitsOf(n \div 10), n % 10)
RECURSIVE NumberOf(_)
NumberOf(d) == IF d = <<>> THEN 0 ELSE NumberOf(Front(d)) * 10 + d[Len(d)]
RECURSIVE StripLeading(_)
StripLeading(d) == IF d # <<>> /\ Head(d) = 0 THEN StripLeading(Tail(d)) ELSE d
RECURSIVE Increment(_)
Increment(d) ==
  IF d = <<>> THEN <<1>>
  ELSE IF d[Len(d)] < 9 THEN [d EXCEPT ![Len(d)] = @ + 1]
  ELSE Append(Increment(Front(d)), 0)

\* rounding of an exact result to sd significant digits, half up
toSignificantDigits(x, sd) ==
  IF Len(x.digits) <= sd THEN x
  ELSE LET kept == SubSeq(x.digits, 1, sd)
           rounded == IF x.digits[sd + 1] >= 5 THEN Increment(kept) ELSE kept
           e == x.exp + Len(x.digits) - sd
       IN IF Len(rounded) > sd
          THEN [digits |-> Front(rounded), exp |-> e + 1]
          ELSE [digits |-> rounded, exp |-> e]

\* the digits of a quotient, one more than PRECISION unless it ends earlier
RECURSIVE longDivision(_, _, _, _)
longDivision(digits, exp, remainder, n) ==
  IF remainder = 0 \/ Len(digits) > PRECISION
  THEN [digits |-> digits, exp |-> exp]
  ELSE longDivision(StripLeading(Append(digits, (remainder * 10) \div n)), exp - 1,
                    (remainder * 10) % n, n)

\* new Decimal(rate).div(n) for a rate of `satang` hundredths and an integer n
div(satang, n) ==
  toSignificantDigits(longDivision(DigitsOf(satang \div n), -2, satang % n, n), PRECISION)

\* the digits of d times the one-digit number m
RECURSIVE timesDigit(_, _, _)
timesDigit(d, m, carry) ==
  IF d = <<>> THEN DigitsOf(carry)
  ELSE LET v == d[Len(d)] * m + carry
       IN Append(timesDigit(Front(d), m, v \div 10), v % 10)

\* x.mul(w) for a weight of w half days: 0, 0.5 or 1
mul(x, halfDays) ==
  IF halfDays = 0 \/ x.digits = <<>> THEN ZeroDecimal
  ELSE IF halfDays = 2 THEN x
  ELSE toSignificantDigits([digits |-> timesDigit(x.digits, 5 * halfDays, 0),
                            exp |-> x.exp - 1], PRECISION)

RECURSIVE addDigits(_, _, _)
addDigits(x, y, carry) ==
  IF x = <<>> THEN (IF carry = 0 THEN <<>> ELSE <<carry>>)
  ELSE LET v == x[Len(x)] + y[Len(y)] + carry
       IN Append(addDigits(Front(x), Front(y), v \div 10), v % 10)

\* a.plus(b)
plus(a, b) ==
  IF a.digits = <<>> THEN b
  ELSE IF b.digits = <<>> THEN a
  ELSE LET e == IF a.exp < b.exp THEN a.exp ELSE b.exp
           da == a.digits \o Zeros(a.exp - e)
           db == b.digits \o Zeros(b.exp - e)
           n == IF Len(da) > Len(db) THEN Len(da) ELSE Len(db)
       IN toSignificantDigits(
            [digits |-> addDigits(Zeros(n - Len(da)) \o da, Zeros(n - Len(db)) \o db, 0),
             exp |-> e], PRECISION)

\* x.toDecimalPlaces(2, Decimal.ROUND_HALF_UP).toNumber(), in hundredths
toDecimalPlaces2(x) ==
  IF x.digits = <<>> THEN 0
  ELSE IF x.exp >= -2 THEN NumberOf(x.digits \o Zeros(x.exp + 2))
  ELSE LET drop == (0 - 2) - x.exp
           padded == Zeros(drop + 1 - Len(x.digits)) \o x.digits
           kept == SubSeq(padded, 1, Len(padded) - drop)
       IN NumberOf(kept) + (IF padded[Len(padded) - drop + 1] >= 5 THEN 1 ELSE 0)

\* ------------------------------------------------------------ resolveWorkPeriods
\* A movement is [effective_date, movement_type]; dates are day numbers, the
\* day before date d is d - 1.
ExitTypes == {"RESIGN", "RETIRE", "DEATH", "TRANSFER_OUT"}
STUDY_REMARK == "on study leave"

\* the first and the last day of a month and its length (lines 65-67)
startOfMonth(year, month) == (month - 1) * 30 + 1
endOfMonth(year, month) == month * 30
\* a fixed divisor for every month
daysInMonth_Always31(year, month) == 31
daysInMonth(year, month) == endOfMonth(year, month) - startOfMonth(year, month) + 1

\* makeLocalDate(y, m, date.getDate() - 1): the day before the movement
dayBefore_SameDay(date) == date
dayBefore(date) == date - 1

\* the first loop (lines 307-318): the state the movements before the month
\* leave behind
RECURSIVE activeBefore(_, _, _)
activeBefore(relevant, monthStart, st) ==
  IF relevant = <<>> THEN st
  ELSE LET mov == Head(relevant)
           date == mov.effective_date
           next ==
             IF date < monthStart
             THEN IF mov.movement_type = "ENTRY" THEN [st EXCEPT !.active = TRUE]
                  ELSE IF mov.movement_type = "STUDY"
                  THEN [st EXCEPT !.active = FALSE, !.remark = STUDY_REMARK]
                  ELSE IF mov.movement_type \in ExitTypes THEN [st EXCEPT !.active = FALSE]
                  ELSE st
             ELSE st
       IN activeBefore(Tail(relevant), monthStart, next)

\* the second loop with a STUDY that closes the open stretch the day before
\* instead of dropping it
RECURSIVE scanMonth_StudyClosesStretch(_, _, _, _)
scanMonth_StudyClosesStretch(relevant, monthStart, monthEnd, st) ==
  IF relevant = <<>> THEN st
  ELSE LET mov == Head(relevant)
           date == mov.effective_date
       IN IF date < monthStart \/ date > monthEnd
          THEN scanMonth_StudyClosesStretch(Tail(relevant), monthStart, monthEnd, st)
          ELSE IF mov.movement_type = "STUDY"
          THEN [st EXCEPT !.active = FALSE, !.currentStart = None, !.remark = STUDY_REMARK,
                          !.periods = IF st.active /\ ~IsNull(st.currentStart)
                                         /\ date - 1 >= monthStart
                                      THEN Append(st.periods, [start |-> Val(st.currentStart),
                                                               end |-> date - 1])
                                      ELSE st.periods]
          ELSE IF mov.movement_type = "ENTRY"
          THEN scanMonth_StudyClosesStretch(Tail(relevant), monthStart, monthEnd,
                         IF ~st.active
                         THEN [st EXCEPT !.active = TRUE, !.currentStart = Some(date)]
                         ELSE st)
          ELSE IF mov.movement_type \in ExitTypes
          THEN LET end == date - 1
                   pushed ==
                     IF st.active /\ ~IsNull(st.currentStart) /\ end >= monthStart
                     THEN Append(st.periods, [start |-> Val(st.currentStart), end |-> end])
                     ELSE st.periods
               IN scanMonth_StudyClosesStretch(Tail(relevant), monthStart, monthEnd,
                            [st EXCEPT !.active = FALSE, !.currentStart = None,
                                       !.periods = pushed])
          ELSE scanMonth_StudyClosesStretch(Tail(relevant), monthStart, monthEnd, st)

\* the second loop (lines 323-349) over the movements inside the month;
\* st = [active, currentStart, periods, remark]
RECURSIVE scanMonth(_, _, _, _)
scanMonth(relevant, monthStart, monthEnd, st) ==
  IF relevant = <<>> THEN st
  ELSE LET mov == Head(relevant)
           date == mov.effective_date
       IN IF date < monthStart \/ date > monthEnd
          THEN scanMonth(Tail(relevant), monthStart, monthEnd, st)
          ELSE IF mov.movement_type = "STUDY"
          THEN [st EXCEPT !.active = FALSE, !.currentStart = None, !.remark = STUDY_REMARK]
          ELSE IF mov.movement_type = "ENTRY"
          THEN scanMonth(Tail(relevant), monthStart, monthEnd,
                         IF ~st.active
                         THEN [st EXCEPT !.active = TRUE,
                                         !.currentStart =
                                           Some(IF date < monthStart THEN monthStart ELSE date)]
                         ELSE st)
          ELSE IF mov.movement_type \in ExitTypes
          THEN LET end == dayBefore(date)
                   pushed ==
                     IF st.active /\ ~IsNull(st.currentStart) /\ end >= monthStart
                     THEN Append(st.periods,
                                 [start |-> Val(st.currentStart),
                                  end |-> IF end > monthEnd THEN monthEnd ELSE end])
                     ELSE st.periods
               IN scanMonth(Tail(relevant), monthStart, monthEnd,
                            [st EXCEPT !.active = FALSE, !.currentStart = None,
                                       !.periods = pushed])
          ELSE scanMonth(Tail(relevant), monthStart, monthEnd, st)

resolveWorkPeriods(movements, monthStart, monthEnd) ==
  LET relevant == SelectSeq(movements, LAMBDA m : m.effective_date <= monthEnd)
  IN IF Len(relevant) = 0
     THEN [periods |-> <<[start |-> monthStart, end |-> monthEnd]>>, remark |-> ""]
     ELSE LET before == activeBefore(relevant, monthStart, [active |-> FALSE, remark |-> ""])
              st == scanMonth(relevant, monthStart, monthEnd,
                              [active |-> before.active,
                               currentStart |-> IF before.active THEN Some(monthStart) ELSE None,
                               periods |-> <<>>,
                               remark |-> before.remark])
          IN [periods |-> IF st.active /\ ~IsNull(st.currentStart)
                          THEN Append(st.periods,
                                      [start |-> Val(st.currentStart), end |-> monthEnd])
                          ELSE st.periods,
              remark |-> st.remark]

\* ------------------------------------------------------------ calculateMonthly
\* Money is counted in hundredths (satang), weights and day counts in half
\* days: WEIGHT_ONE is one whole day.
WEIGHT_ONE == 2
LIFETIME_LICENSE_KEYWORDS == {"lifetime"}
ToUpperCase(status) == IF status = "active" THEN "ACTIVE" ELSE status

\* checkLicense(licenses, dateStr, positionName)
checkLicense(licenses, date, positionName) ==
  \/ positionName # "" /\ positionName \in LIFETIME_LICENSE_KEYWORDS
  \/ \E i \in DOMAIN licenses :
       \/ licenses[i].license_name \in LIFETIME_LICENSE_KEYWORDS
       \/ /\ ToUpperCase(licenses[i].status) = "ACTIVE"
          /\ date >= licenses[i].valid_from /\ date <= licenses[i].valid_until

\* lines 166-168 without the license
eligibleWeight_IgnoresLicense(hasLicense, deductionWeight) ==
  LET weight == WEIGHT_ONE - deductionWeight
  IN IF weight < 0 THEN 0 ELSE weight

\* lines 166-168: eligibleWeight = hasLicense ? 1 : 0, minus the deduction
\* weight, not below 0
eligibleWeight(hasLicense, deductionWeight) ==
  LET weight == (IF hasLicense THEN WEIGHT_ONE ELSE 0) - deductionWeight
  IN IF weight < 0 THEN 0 ELSE weight

\* eligibilities.find(e => d >= eff && d <= exp), exp defaulting to 9999-12-31
activeEligibility(eligibilities, d) ==
  LET hits == SelectSeq(eligibilities,
                        LAMBDA e : /\ d >= e.effective_date
                                   /\ (IsNull(e.expiry_date) \/ d <= Val(e.expiry_date)))
  IN IF hits = <<>> THEN None ELSE Some(Head(hits))

\* one iteration that keeps the first rate it met instead of the last
calculateDay_KeepsFirstRate(acc, d, eligibilities, records, monthDays) ==
  LET activeElig == activeEligibility(eligibilities, d)
      currentRate == IF IsNull(activeElig) THEN 0 ELSE Val(activeElig).rate
      hasLicense == checkLicense(records.licenses, d, records.position_name)
      deductionWeight == IF d \in DOMAIN records.deductions THEN records.deductions[d] ELSE 0
      weight == eligibleWeight(hasLicense, deductionWeight)
      dailyRate == div(currentRate, monthDays)
      keep == IsNull(activeElig) \/ ~IsNull(acc.lastMasterRateId)
  IN [totalPayment |-> plus(acc.totalPayment, mul(dailyRate, weight)),
      validLicenseDays |-> acc.validLicenseDays + (IF hasLicense THEN 1 ELSE 0),
      totalDeductionDays |->
        acc.totalDeductionDays + (IF deductionWeight > 0 THEN deductionWeight ELSE 0),
      daysCounted |-> acc.daysCounted + (IF weight > 0 THEN weight ELSE 0),
      lastRateSnapshot |-> IF keep THEN acc.lastRateSnapshot ELSE currentRate,
      lastMasterRateId |->
        IF keep THEN acc.lastMasterRateId ELSE Some(Val(activeElig).rate_id),
      days |-> Append(acc.days,
                      [date |-> d, rate |-> currentRate, hasLicense |-> hasLicense,
                       deductionWeight |-> deductionWeight, eligibleWeight |-> weight])]

\* one iteration of the loop over the days of a period (lines 148-174); days
\* keeps what each iteration used
calculateDay(acc, d, eligibilities, records, monthDays) ==
  LET activeElig == activeEligibility(eligibilities, d)
      currentRate == IF IsNull(activeElig) THEN 0 ELSE Val(activeElig).rate
      hasLicense == checkLicense(records.licenses, d, records.position_name)
      deductionWeight == IF d \in DOMAIN records.deductions THEN records.deductions[d] ELSE 0
      weight == eligibleWeight(hasLicense, deductionWeight)
      dailyRate == div(currentRate, monthDays)
  IN [totalPayment |-> plus(acc.totalPayment, mul(dailyRate, weight)),
      validLicenseDays |-> acc.validLicenseDays + (IF hasLicense THEN 1 ELSE 0),
      totalDeductionDays |->
        acc.totalDeductionDays + (IF deductionWeight > 0 THEN deductionWeight ELSE 0),
      daysCounted |-> acc.daysCounted + (IF weight > 0 THEN weight ELSE 0),
      lastRateSnapshot |-> IF IsNull(activeElig) THEN acc.lastRateSnapshot ELSE currentRate,
      lastMasterRateId |->
        IF IsNull(activeElig) THEN acc.lastMasterRateId ELSE Some(Val(activeElig).rate_id),
      days |-> Append(acc.days,
                      [date |-> d, rate |-> currentRate, hasLicense |-> hasLicense,
                       deductionWeight |-> deductionWeight, eligibleWeight |-> weight])]

\* for (d = period.start; d <= period.end; d++), each day computed before the
\* next one starts
RECURSIVE calculateDays(_, _, _, _, _, _)
calculateDays(acc, d, end, eligibilities, records, monthDays) ==
  IF d > end THEN acc
  ELSE LET next == calculateDay(acc, d, eligibilities, records, monthDays)
       IN IF next = acc
          THEN calculateDays(acc, d + 1, end, eligibilities, records, monthDays)
          ELSE calculateDays(next, d + 1, end, eligibilities, records, monthDays)

\* for (const period of periods)
RECURSIVE calculatePeriods(_, _, _, _, _)
calculatePeriods(acc, workPeriods, eligibilities, records, monthDays) ==
  IF workPeriods = <<>> THEN acc
  ELSE calculatePeriods(
         calculateDays(acc, Head(workPeriods).start, Head(workPeriods).end,
                       eligibilities, records, monthDays),
         Tail(workPeriods), eligibilities, records, monthDays)

NO_WORK_REMARK == "no work in this month"
emptyResult(remark) ==
  [netPayment |-> 0, totalDeductionDays |-> 0, validLicenseDays |-> 0, eligibleDays |-> 0,
   remark |-> remark, masterRateId |-> None, rateSnapshot |-> 0]

\* calculateMonthly from line 132 on, for the rows its queries returned: the
\* CalculationResult and the days of the loop
monthlyCalculation(eligibilities, records, year, month) ==
  LET resolved == resolveWorkPeriods(records.movements, startOfMonth(year, month),
                                     endOfMonth(year, month))
  IN IF Len(resolved.periods) = 0
     THEN [result |-> emptyResult(IF resolved.remark = "" THEN NO_WORK_REMARK
                                  ELSE resolved.remark),
           days |-> <<>>]
     ELSE LET acc == calculatePeriods(
                       [totalPayment |-> ZeroDecimal, validLicenseDays |-> 0,
                        totalDeductionDays |-> 0, daysCounted |-> 0,
                        lastRateSnapshot |-> 0, lastMasterRateId |-> None, days |-> <<>>],
                       resolved.periods, eligibilities, records, daysInMonth(year, month))
          IN [result |-> [netPayment |-> toDecimalPlaces2(acc.totalPayment),
                          totalDeductionDays |-> acc.totalDeductionDays,
                          validLicenseDays |-> acc.validLicenseDays,
                          eligibleDays |-> acc.daysCounted,
                          remark |-> resolved.remark,
                          masterRateId |-> acc.lastMasterRateId,
                          rateSnapshot |-> acc.lastRateSnapshot],
              days |-> acc.days]

\* rows in the order of effective_date, rows of one date in table order
RECURSIVE OrderByEffectiveDate(_)
OrderByEffectiveDate(rows) ==
  IF rows = <<>> THEN <<>>
  ELSE LET first == CHOOSE i \in DOMAIN rows :
                      \A j \in DOMAIN rows :
                        \/ rows[i].effective_date < rows[j].effective_date
                        \/ rows[i].effective_date = rows[j].effective_date /\ i <= j
       IN <<rows[first]>>
          \o OrderByEffectiveDate(SubSeq(rows, 1, first - 1) \o SubSeq(rows, first + 1, Len(rows)))

\* the eligibility query of lines 79-90: the active rows of the citizen that
\* reach into the month, joined with their master rate
selectEligibilities(citizenId, year, month) ==
  LET found == SelectSeq(eligibility,
                 LAMBDA e : /\ e.citizen_id = citizenId
                            /\ e.is_active
                            /\ e.effective_date <= endOfMonth(year, month)
                            /\ (IsNull(e.expiry_date)
                                \/ Val(e.expiry_date) >= startOfMonth(year, month))
                            /\ \E m \in MasterRates : m.rate_id = e.master_rate_id)
      joined == [i \in DOMAIN found |->
                   LET m == CHOOSE m \in MasterRates : m.rate_id = found[i].master_rate_id
                   IN [effective_date |-> found[i].effective_date,
                       expiry_date |-> found[i].expiry_date,
                       rate |-> m.amount * 100,
                       rate_id |-> m.rate_id]]
  IN OrderByEffectiveDate(joined)

calculateMonthly(citizenId, year, month) ==
  monthlyCalculation(selectEligibilities(citizenId, year, month), hr, year, month)

\* ------------------------------------------------- the payroll calls, by statement
\* The same three functions of PayrollService, one database statement after
\* the other, so that two connections interleave. A row lock is the pair of
\* the row and the connection holding it; commit and rollback release the
\* locks of the connection.
PeriodRow(periodId) == <<"pts_periods", periodId>>
LockedByOther(c, row) == \E l \in locks : l.row = row /\ l.holder # c
Release(c) == {l \in locks : l.holder # c}
Call(c, pc, op) == tx[c].pc = pc /\ tx[c].op = op
Return(c) == tx' = [tx EXCEPT ![c] = NoCall]

\* getConnection and beginTransaction of processPeriodCalculation(periodId)
BeginProcessPeriodCalculation(c, periodId) ==
  /\ tx[c].pc = "idle"
  /\ tx' = [tx EXCEPT ![c] = [pc |-> "begin", op |-> "processPeriodCalculation",
                              periodId |-> periodId, action |-> "", period |-> None]]
  /\ UNCHANGED <<requests, request_actions, eligibility, signatures, last,
                 periods, payouts, source, locks, hr, redis, now>>

\* getConnection and beginTransaction of updatePeriodStatus(periodId, action)
BeginUpdatePeriodStatus(c, periodId, action) ==
  /\ tx[c].pc = "idle"
  /\ tx' = [tx EXCEPT ![c] = [pc |-> "begin", op |-> "updatePeriodStatus",
                              periodId |-> periodId, action |-> action, period |-> None]]
  /\ UNCHANGED <<requests, request_actions, eligibility, signatures, last,
                 periods, payouts, source, locks, hr, redis, now>>

\* SELECT * FROM pts_periods WHERE period_id = ? without FOR UPDATE
SelectPeriod_NoLock(c) ==
  /\ tx[c].pc = "begin"
  /\ tx[c].op \in {"processPeriodCalculation", "updatePeriodStatus"}
  /\ LET periodId == tx[c].periodId
     IN tx' = [tx EXCEPT ![c].pc = "selected",
                         ![c].period = IF periodId \in DOMAIN periods
                                       THEN Some(periods[periodId]) ELSE None]
  /\ UNCHANGED <<requests, request_actions, eligibility, signatures, last,
                 periods, payouts, source, locks, hr, redis, now>>

\* SELECT * FROM pts_periods WHERE period_id = ? FOR UPDATE: waits while
\* another connection holds the row, then reads the row and holds it
SelectPeriodForUpdate(c) ==
  /\ tx[c].pc = "begin"
  /\ tx[c].op \in {"processPeriodCalculation", "updatePeriodStatus"}
  /\ LET periodId == tx[c].periodId
     IN /\ ~LockedByOther(c, PeriodRow(periodId))
        /\ tx' = [tx EXCEPT ![c].pc = "selected",
                            ![c].period = IF periodId \in DOMAIN periods
                                          THEN Some(periods[periodId]) ELSE None]
        /\ locks' = IF periodId \in DOMAIN periods
                    THEN locks \cup {[row |-> PeriodRow(periodId), holder |-> c]}
                    ELSE locks
  /\ UNCHANGED <<requests, request_actions, eligibility, signatures, last,
                 periods, payouts, source, hr, redis, now>>

\* processPeriodCalculation from the row it selected to its commit or rollback
FinishProcessPeriodCalculation(c) ==
  /\ Call(c, "selected", "processPeriodCalculation")
  /\ Return(c)
  /\ locks' = Release(c)
  /\ RequestTablesUnchanged
  /\ UNCHANGED <<source, hr, redis, now>>
  /\ LET periodId == tx[c].periodId
         period == tx[c].period
     IN IF IsNull(period)
        THEN /\ PayrollRollback
             /\ last' = Err("processPeriodCalculation", periodId, "Period not found")
        ELSE IF Val(period).status # OPEN
        THEN /\ PayrollRollback
             /\ last' = Err("processPeriodCalculation", periodId, "period is not OPEN")
        ELSE LET year == Val(period).period_year
                 month == Val(period).period_month
                 eligibleUsers == DistinctCitizens(eligibility, LAST_DAY(year, month), {})
                 acc == calculateLoop([payouts |-> DeletePayouts(payouts, periodId),
                                       totalAmount |-> 0, headCount |-> 0, threw |-> FALSE],
                                      periodId, eligibleUsers)
             IN IF acc.threw
                THEN /\ PayrollRollback
                     /\ last' = Err("processPeriodCalculation", periodId, "calculation failed")
                ELSE /\ payouts' = acc.payouts
                     /\ periods' = [periods EXCEPT ![periodId].total_amount = acc.totalAmount,
                                                    ![periodId].total_headcount = acc.headCount]
                     /\ last' = Ok("processPeriodCalculation", periodId)

\* updatePeriodStatus from the row it selected to its commit or rollback
FinishUpdatePeriodStatus(c) ==
  /\ Call(c, "selected", "updatePeriodStatus")
  /\ Return(c)
  /\ locks' = Release(c)
  /\ RequestTablesUnchanged
  /\ UNCHANGED <<payouts, source, hr, redis, now>>
  /\ LET periodId == tx[c].periodId
         action == tx[c].action
         period == tx[c].period
     IN IF IsNull(period)
        THEN /\ UNCHANGED periods
             /\ last' = Err("updatePeriodStatus", periodId, "Period not found")
        ELSE LET currentStatus == Val(period).status
                 nextStatus ==
                   IF action = "SUBMIT" /\ currentStatus = OPEN
                   THEN Some(WAITING_HR)
                   ELSE IF action = "APPROVE_HR" /\ currentStatus = WAITING_HR
                   THEN Some(WAITING_DIRECTOR)
                   ELSE IF action = "APPROVE_DIRECTOR" /\ currentStatus = WAITING_DIRECTOR
                   THEN Some(CLOSED)
                   ELSE IF action = "REJECT"
                   THEN Some(OPEN)
                   ELSE None
             IN IF IsNull(nextStatus)
                THEN /\ UNCHANGED periods
                     /\ last' = Err("updatePeriodStatus", periodId,
                                  "Invalid action '" \o action \o "' for status '"
                                    \o currentStatus \o "'")
                ELSE /\ periods' =
                          [periods EXCEPT ![periodId].status = Val(nextStatus),
                                          ![periodId].closed_at =
                                            IF Val(nextStatus) = CLOSED THEN Some("NOW") ELSE @]
                     /\ last' = Ok("updatePeriodStatus", periodId)

\* getOrCreatePeriod(year, month) is called: no transaction, no lock
BeginGetOrCreatePeriod(c, year, month) ==
  /\ tx[c].pc = "idle"
  /\ tx' = [tx EXCEPT ![c] = [pc |-> "begin", op |-> "getOrCreatePeriod",
                              year |-> year, month |-> month, rows |-> <<>>]]
  /\ UNCHANGED <<requests, request_actions, eligibility, signatures, last,
                 periods, payouts, source, locks, hr, redis, now>>

\* the pts_periods rows of a month, in the order of their ids
PeriodsOf(year, month) ==
  SelectSeq(periods, LAMBDA p : p.period_month = month /\ p.period_year = year)

\* SELECT * FROM pts_periods WHERE period_month = ? AND period_year = ?
SelectPeriodByMonth(c) ==
  /\ Call(c, "begin", "getOrCreatePeriod")
  /\ tx' = [tx EXCEPT ![c].pc = "selected",
                      ![c].rows = PeriodsOf(tx[c].year, tx[c].month)]
  /\ UNCHANGED <<requests, request_actions, eligibility, signatures, last,
                 periods, payouts, source, locks, hr, redis, now>>

\* pts_periods has one row per (period_month, period_year): a second INSERT
\* for the pair is refused
DuplicatePeriod(year, month) == PeriodsOf(year, month) # <<>>

\* getOrCreatePeriod after its SELECT: the first row found, else the INSERT
\* and the row it made
FinishGetOrCreatePeriod(c) ==
  /\ Call(c, "selected", "getOrCreatePeriod")
  /\ Return(c)
  /\ RequestTablesUnchanged
  /\ UNCHANGED <<payouts, source, locks, hr, redis, now>>
  /\ LET year == tx[c].year
         month == tx[c].month
         rows == tx[c].rows
     IN IF Len(rows) > 0
        THEN /\ UNCHANGED periods
             /\ last' = Ok("getOrCreatePeriod", rows[1].period_id)
        ELSE IF DuplicatePeriod(year, month)
        THEN /\ UNCHANGED periods
             /\ last' = Err("getOrCreatePeriod", 0, "Duplicate entry")
        ELSE /\ periods' = Append(periods,
                   [period_id |-> Len(periods) + 1, period_month |-> month,
                    period_year |-> year, status |-> OPEN, closed_at |-> None,
                    total_amount |-> 0, total_headcount |-> 0])
             /\ last' = Ok("getOrCreatePeriod", Len(periods) + 1)

\* ------------------------------------------- performFullSync, by statement
\* lockValue = `lock:${Date.now()}` and SET SYNC_LOCK_KEY lockValue EX
\* LOCK_TTL_SECONDS NX: the call that finds the key set throws, the call that
\* sets it goes on to its transaction
BeginPerformFullSync(c) ==
  /\ tx[c].pc = "idle"
  /\ IF IsNull(redisGet(SYNC_LOCK_KEY))
     THEN /\ redis' = redisSet(SYNC_LOCK_KEY, now, LOCK_TTL_SECONDS)
          /\ tx' = [tx EXCEPT ![c] = [pc |-> "body", op |-> "performFullSync",
                                      lockValue |-> now, current |-> None, err |-> OK]]
          /\ UNCHANGED last
     ELSE /\ UNCHANGED <<redis, tx>>
          /\ last' = Err("performFullSync", 0, ALREADY_IN_PROGRESS)
  /\ RequestTablesUnchanged
  /\ PayrollTablesUnchanged
  /\ UNCHANGED <<locks, hr, now>>

\* the transaction of the synchronization, to its commit: the reference data
\* of the employees change
SyncTransaction(c) ==
  /\ Call(c, "body", "performFullSync")
  /\ \E citizenId \in PayrollCitizens : \E r \in SourceResults[citizenId] :
       source' = [source EXCEPT ![citizenId] = r]
  /\ tx' = [tx EXCEPT ![c].pc = "committed"]
  /\ RequestTablesUnchanged
  /\ UNCHANGED <<periods, payouts, last, locks, hr, redis, now>>

\* a statement of the transaction fails: rollback, and the error is thrown on
SyncFailure(c) ==
  /\ Call(c, "body", "performFullSync")
  /\ tx' = [tx EXCEPT ![c].pc = "release", ![c].err = "Synchronization failed"]
  /\ RequestTablesUnchanged
  /\ PayrollTablesUnchanged
  /\ UNCHANGED <<last, locks, hr, redis, now>>

\* SET SYNC_RESULT_KEY resultData EX RESULT_TTL_SECONDS
SetSyncResult(c) ==
  /\ Call(c, "committed", "performFullSync")
  /\ redis' = redisSet(SYNC_RESULT_KEY, "success", RESULT_TTL_SECONDS)
  /\ tx' = [tx EXCEPT ![c].pc = "release"]
  /\ RequestTablesUnchanged
  /\ PayrollTablesUnchanged
  /\ UNCHANGED <<last, locks, hr, now>>

\* releaseLock(lockValue): GET SYNC_LOCK_KEY
ReleaseLockGet(c) ==
  /\ Call(c, "release", "performFullSync")
  /\ tx' = [tx EXCEPT ![c].pc = "got", ![c].current = redisGet(SYNC_LOCK_KEY)]
  /\ RequestTablesUnchanged
  /\ PayrollTablesUnchanged
  /\ UNCHANGED <<last, locks, hr, redis, now>>

\* releaseLock(lockValue): DEL SYNC_LOCK_KEY when the value read is lockValue;
\* the call returns or throws
ReleaseLockDel(c) ==
  /\ Call(c, "got", "performFullSync")
  /\ redis' = IF tx[c].current = Some(tx[c].lockValue)
              THEN redisDel(SYNC_LOCK_KEY) ELSE redis
  /\ Return(c)
  /\ last' = IF tx[c].err = OK THEN Ok("performFullSync", 0)
             ELSE Err("performFullSync", 0, tx[c].err)
  /\ RequestTablesUnchanged
  /\ PayrollTablesUnchanged
  /\ UNCHANGED <<locks, hr, now>>

\* ---------------------------------------------- approveRequest, by statement
\* Locks on a row of pts_requests: the exclusive lock of an UPDATE, and the
\* shared lock the foreign key fk_pts_request_actions_request_id takes on the
\* parent row when an action row is inserted.
RequestRow(requestId) == <<"pts_requests", requestId>>
SharedRequestRow(requestId) == <<"pts_requests (shared)", requestId>>
ER_LOCK_DEADLOCK == "Deadlock found when trying to get lock"

\* getConnection and beginTransaction of approveRequest
BeginApproveRequest(c, requestId, actorId, actorRole, comment) ==
  /\ tx[c].pc = "idle"
  /\ tx' = [tx EXCEPT ![c] = [pc |-> "begin", op |-> "approveRequest",
                              requestId |-> requestId, actorId |-> actorId,
                              actorRole |-> actorRole, comment |-> comment,
                              request |-> None, signatureSnapshot |-> None]]
  /\ UNCHANGED <<requests, request_actions, eligibility, signatures, last,
                 periods, payouts, source, locks, hr, redis, now>>

\* SELECT * FROM pts_requests WHERE request_id = ? (no lock), the tests on the
\* row read, and the SELECT of the approver's signature
SelectRequest(c) ==
  /\ Call(c, "begin", "approveRequest")
  /\ LET requestId == tx[c].requestId
         actorId == tx[c].actorId
         Throw(err) == /\ Return(c)
                       /\ last' = Err("approveRequest", requestId, err)
     IN IF requestId \notin DOMAIN requests
        THEN Throw("Request not found")
        ELSE IF requests[requestId].status # PENDING
        THEN Throw("Cannot approve request with status")
        ELSE IF StepRole(requests[requestId].current_step) # Some(tx[c].actorRole)
        THEN Throw("Invalid approver role")
        ELSE IF IsNull(SignatureOf(actorId))
        THEN Throw("Approver signature is required")
        ELSE /\ tx' = [tx EXCEPT ![c].pc = "selected",
                                 ![c].request = Some(requests[requestId]),
                                 ![c].signatureSnapshot = SignatureOf(actorId)]
             /\ UNCHANGED last
  /\ UNCHANGED <<requests, request_actions, eligibility, signatures,
                 periods, payouts, source, locks, hr, redis, now>>

\* _performApproval: INSERT INTO pts_request_actions. The row stays inside the
\* transaction until the commit; the foreign key locks the request row shared.
InsertApproveAction(c) ==
  /\ Call(c, "selected", "approveRequest")
  /\ ~LockedByOther(c, RequestRow(tx[c].requestId))
  /\ locks' = locks \cup {[row |-> SharedRequestRow(tx[c].requestId), holder |-> c]}
  /\ tx' = [tx EXCEPT ![c].pc = "inserted"]
  /\ UNCHANGED <<requests, request_actions, eligibility, signatures, last,
                 periods, payouts, source, hr, redis, now>>

\* _performApproval from its UPDATE of pts_requests, which waits until no other
\* transaction holds a lock on the row, to the commit or rollback: the action
\* row and the step are those of the request as it was read
FinishApproveRequest(c) ==
  /\ Call(c, "inserted", "approveRequest")
  /\ ~LockedByOther(c, RequestRow(tx[c].requestId))
  /\ ~LockedByOther(c, SharedRequestRow(tx[c].requestId))
  /\ Return(c)
  /\ locks' = Release(c)
  /\ PayrollTablesUnchanged
  /\ UNCHANGED <<signatures, hr, redis, now>>
  /\ LET requestId == tx[c].requestId
         res == performApproval(DB, Val(tx[c].request), requestId, tx[c].actorId,
                                OrNull(tx[c].comment), Val(tx[c].signatureSnapshot))
     IN IF res.threw
        THEN /\ Rollback
             /\ last' = Result("approveRequest", requestId, res.err,
                               IF res.finalized THEN {requestId} ELSE {})
        ELSE /\ Commit(res.db)
             /\ last' = Result("approveRequest", requestId, OK,
                               IF res.finalized THEN {requestId} ELSE {})

\* two transactions hold the shared lock and wait for the exclusive one: the
\* server rolls one of them back
DeadlockApproveRequest(c) ==
  /\ Call(c, "inserted", "approveRequest")
  /\ \E other \in Connections \ {c} :
       /\ Call(other, "inserted", "approveRequest")
       /\ tx[other].requestId = tx[c].requestId
  /\ Return(c)
  /\ locks' = Release(c)
  /\ Rollback
  /\ last' = Err("approveRequest", tx[c].requestId, ER_LOCK_DEADLOCK)
  /\ PayrollTablesUnchanged
  /\ UNCHANGED <<signatures, hr, redis, now>>

\* ------------------------------------------------------------ specifications
\* Spec: every service function of the workflow, called by any user with any
\* comment on any request id (one id beyond the rows that exist is never
\* inserted), with at most MaxRequests requests.
RequestIdInputs == 1..(MaxRequests + 1)
RequestIdLists == BatchInputs(RequestIdInputs)

CreateRequest ==
  /\ Len(requests) < MaxRequests
  /\ \E u \in Creators, a \in Amounts, d \in EffectiveDates : createRequest(u, a, d)
  /\ PayrollTablesUnchanged /\ Idle
SubmitRequest ==
  /\ \E id \in RequestIdInputs, u \in Users : submitRequest(id, u)
  /\ PayrollTablesUnchanged /\ Idle
ApproveRequest ==
  /\ \E id \in RequestIdInputs, u \in Users, c \in ApproveComments :
       approveRequest(id, u, Role[u], c)
  /\ PayrollTablesUnchanged /\ Idle
RejectRequest ==
  /\ \E id \in RequestIdInputs, u \in Users, c \in Comments : rejectRequest(id, u, Role[u], c)
  /\ PayrollTablesUnchanged /\ Idle
ReturnRequest ==
  /\ \E id \in RequestIdInputs, u \in Users, c \in Comments : returnRequest(id, u, Role[u], c)
  /\ PayrollTablesUnchanged /\ Idle
ApproveBatch ==
  /\ \E u \in Users, ids \in RequestIdLists, c \in BatchComments :
       approveBatch(u, Role[u], ids, c)
  /\ PayrollTablesUnchanged /\ Idle

Next ==
  \/ CreateRequest
  \/ SubmitRequest
  \/ ApproveRequest
  \/ RejectRequest
  \/ ReturnRequest
  \/ ApproveBatch

Spec == Init /\ [][Next]_vars

\* SpecBatch: up to MaxBatchRequests requests of one applicant, each moved
\* along by the users whose role is the one of its current step (with and
\* without a signature on file), and batches over every list of ids (repeated
\* and missing ids included) called by the director and the head of finance.
BatchRequestIds == 1..(MaxBatchRequests + 1)
BatchRequestIdLists == BatchInputs(BatchRequestIds)
BatchCallers == {"dr", "hf"}
OnDuty(id) == {u \in Users : StepRole(requests[id].current_step) = Some(Role[u])}

BatchCreateRequest ==
  /\ Len(requests) < MaxBatchRequests
  /\ \E a \in Amounts \ {None} : createRequest("u1", a, Some(10))
  /\ PayrollTablesUnchanged /\ Idle
BatchSubmitRequest ==
  /\ \E id \in DOMAIN requests : submitRequest(id, requests[id].user_id)
  /\ PayrollTablesUnchanged /\ Idle
BatchApproveRequest ==
  /\ \E id \in DOMAIN requests : \E u \in OnDuty(id) : approveRequest(id, u, Role[u], None)
  /\ PayrollTablesUnchanged /\ Idle
BatchRejectRequest ==
  /\ \E id \in DOMAIN requests : \E u \in OnDuty(id) :
       rejectRequest(id, u, Role[u], Some(<<"x">>))
  /\ PayrollTablesUnchanged /\ Idle
BatchReturnRequest ==
  /\ \E id \in DOMAIN requests : \E u \in OnDuty(id) :
       returnRequest(id, u, Role[u], Some(<<"x">>))
  /\ PayrollTablesUnchanged /\ Idle
BatchApproveBatch ==
  /\ \E u \in BatchCallers, ids \in BatchRequestIdLists :
       approveBatch(u, Role[u], ids, None)
  /\ PayrollTablesUnchanged /\ Idle

NextBatch ==
  \/ BatchCreateRequest
  \/ BatchSubmitRequest
  \/ BatchApproveRequest
  \/ BatchRejectRequest
  \/ BatchReturnRequest
  \/ BatchApproveBatch

SpecBatch == Init /\ [][NextBatch]_vars

\* SpecEndpoint: one request of the applicant moved along by the users on
\* duty, and batch approval reached through POST /api/requests/batch-approve
\* by every user with every list of ids (the empty list included).
EndpointRequestIdLists == SeqsUpTo(RequestIdInputs, MaxBatch)

EndpointCreateRequest ==
  /\ Len(requests) < MaxRequests
  /\ \E a \in Amounts \ {None} : createRequest("u1", a, Some(10))
  /\ PayrollTablesUnchanged /\ Idle
EndpointSubmitRequest ==
  /\ \E id \in DOMAIN requests : submitRequest(id, requests[id].user_id)
  /\ PayrollTablesUnchanged /\ Idle
EndpointApproveRequest ==
  /\ \E id \in DOMAIN requests : \E u \in OnDuty(id) : approveRequest(id, u, Role[u], None)
  /\ PayrollTablesUnchanged /\ Idle
EndpointRejectRequest ==
  /\ \E id \in DOMAIN requests : \E u \in OnDuty(id) :
       rejectRequest(id, u, Role[u], Some(<<"x">>))
  /\ PayrollTablesUnchanged /\ Idle
EndpointReturnRequest ==
  /\ \E id \in DOMAIN requests : \E u \in OnDuty(id) :
       returnRequest(id, u, Role[u], Some(<<"x">>))
  /\ PayrollTablesUnchanged /\ Idle
PostBatchApprove ==
  /\ \E u \in Users, ids \in EndpointRequestIdLists, c \in BatchComments :
       postBatchApprove(u, ids, c)
  /\ PayrollTablesUnchanged /\ Idle

NextEndpoint ==
  \/ EndpointCreateRequest
  \/ EndpointSubmitRequest
  \/ EndpointApproveRequest
  \/ EndpointRejectRequest
  \/ EndpointReturnRequest
  \/ PostBatchApprove

SpecEndpoint == Init /\ [][NextEndpoint]_vars

\* SpecEligibility: up to MaxEligibilityRequests requests of the applicant for
\* the rate he is classified for, with effective dates in either order, each
\* submitted by him and approved step by step by the users on duty.
EligibilityDates == {Some(10), Some(20)}

EligibilityCreateRequest ==
  /\ Len(requests) < MaxEligibilityRequests
  /\ \E d \in EligibilityDates : createRequest("u1", Some(1500), d)
  /\ PayrollTablesUnchanged /\ Idle
EligibilitySubmitRequest ==
  /\ \E id \in DOMAIN requests : submitRequest(id, requests[id].user_id)
  /\ PayrollTablesUnchanged /\ Idle
EligibilityApproveRequest ==
  /\ \E id \in DOMAIN requests : \E u \in OnDuty(id) : approveRequest(id, u, Role[u], None)
  /\ PayrollTablesUnchanged /\ Idle

NextEligibility ==
  \/ EligibilityCreateRequest
  \/ EligibilitySubmitRequest
  \/ EligibilityApproveRequest

SpecEligibility == Init /\ [][NextEligibility]_vars

\* SpecPayroll: the payroll period of one month. The eligibility table holds
\* the rows of three employees whose requests were approved earlier, the third
\* one effective only from the following month, and the first one with a
\* second active row from a request with an earlier effective date approved
\* later; the period is created, moved
\* through its workflow by every action, recalculated at any time, and the
\* synchronization job changes the employees' reference data in between.
PayrollYear == 2025
PayrollMonth == 1
PeriodIdInputs == {1, 2}
EmptyTables == [requests |-> <<>>, request_actions |-> <<>>, eligibility |-> <<>>]
PayrollEligibility ==
  createEligibility(
    createEligibility(
      createEligibility(
        createEligibility(EmptyTables, CitizenOf("u1"), 1, 10, 1),
        CitizenOf("hd"), 2, 20, 2),
      CitizenOf("po"), 1, 40, 3),
    CitizenOf("u1"), 1, 5, 4).eligibility

InitPayroll ==
  /\ requests = <<>>
  /\ request_actions = <<>>
  /\ eligibility = PayrollEligibility
  /\ signatures = Users \ {"dr2"}
  /\ last = Ok("init", 0)
  /\ periods = <<>>
  /\ payouts = <<>>
  /\ source \in Sources
  /\ tx = NoCalls
  /\ locks = {}
  /\ redis = NoKeys
  /\ now = 0
  /\ hr = NoRecords

GetOrCreatePeriod == getOrCreatePeriod(PayrollYear, PayrollMonth) /\ Idle
ProcessPeriodCalculation ==
  /\ \E id \in PeriodIdInputs : processPeriodCalculation(id)
  /\ Idle
UpdatePeriodStatus ==
  /\ \E id \in PeriodIdInputs, action \in PeriodActions : updatePeriodStatus(id, action)
  /\ Idle
PerformFullSync ==
  /\ \E c \in PayrollCitizens : \E r \in SourceResults[c] :
       r # source[c] /\ performFullSync(c, r)
  /\ UNCHANGED <<tx, locks, hr, now>>

NextPayroll ==
  \/ GetOrCreatePeriod
  \/ ProcessPeriodCalculation
  \/ UpdatePeriodStatus
  \/ PerformFullSync

SpecPayroll == InitPayroll /\ [][NextPayroll]_vars

\* SpecPeriodCalls: two connections call getOrCreatePeriod,
\* processPeriodCalculation and updatePeriodStatus on the period of one month
\* at any time, each call advancing one statement at a time; the eligibility
\* table and the reference data are those of SpecPayroll's first state.
InitPeriodCalls ==
  /\ requests = <<>>
  /\ request_actions = <<>>
  /\ eligibility = PayrollEligibility
  /\ signatures = Users \ {"dr2"}
  /\ last = Ok("init", 0)
  /\ periods = <<>>
  /\ payouts = <<>>
  /\ source = InitialSource
  /\ tx = NoCalls
  /\ locks = {}
  /\ redis = NoKeys
  /\ now = 0
  /\ hr = NoRecords

CallGetOrCreatePeriod == \E c \in Connections : BeginGetOrCreatePeriod(c, PayrollYear, PayrollMonth)
StepSelectPeriodByMonth == \E c \in Connections : SelectPeriodByMonth(c)
ReturnGetOrCreatePeriod == \E c \in Connections : FinishGetOrCreatePeriod(c)
CallProcessPeriodCalculation ==
  \E c \in Connections, id \in PeriodIdInputs : BeginProcessPeriodCalculation(c, id)
CallUpdatePeriodStatus ==
  \E c \in Connections, id \in PeriodIdInputs, action \in PeriodActions :
    BeginUpdatePeriodStatus(c, id, action)
StepSelectPeriodForUpdate == \E c \in Connections : SelectPeriodForUpdate(c)
ReturnProcessPeriodCalculation == \E c \in Connections : FinishProcessPeriodCalculation(c)
ReturnUpdatePeriodStatus == \E c \in Connections : FinishUpdatePeriodStatus(c)

NextPeriodCalls ==
  \/ CallGetOrCreatePeriod
  \/ StepSelectPeriodByMonth
  \/ ReturnGetOrCreatePeriod
  \/ CallProcessPeriodCalculation
  \/ CallUpdatePeriodStatus
  \/ StepSelectPeriodForUpdate
  \/ ReturnProcessPeriodCalculation
  \/ ReturnUpdatePeriodStatus

SpecPeriodCalls == InitPeriodCalls /\ [][NextPeriodCalls]_vars


\* SpecWorkPeriods: resolveWorkPeriods applied to every list of up to
\* MaxMovements movements ordered by effective_date (ties in any order) with
\* dates before, on the edges of, inside and after the month.
MaxMovements == 3
WorkYear == 2025
WorkMonth == 2
MovementDates == {20, 31, 32, 45, 60, 61}
MovementTypes == {"ENTRY", "STUDY", "RESIGN", "TRANSFER_OUT", "PROMOTION"}
Movements == [effective_date : MovementDates, movement_type : MovementTypes]
OrderedByDate(q) ==
  \A i, j \in DOMAIN q : i < j => q[i].effective_date <= q[j].effective_date
MovementLists == {q \in SeqsUpTo(Movements, MaxMovements) : OrderedByDate(q)}

InitWorkPeriods ==
  /\ requests = <<>>
  /\ request_actions = <<>>
  /\ eligibility = <<>>
  /\ signatures = Users \ {"dr2"}
  /\ last = Ok("init", 0)
  /\ periods = <<>>
  /\ payouts = <<>>
  /\ source = InitialSource
  /\ tx = NoCalls
  /\ locks = {}
  /\ redis = NoKeys
  /\ now = 0
  /\ \E m \in MovementLists : hr = [NoRecords EXCEPT !.movements = m]

ResolveWorkPeriods ==
  /\ LET r == resolveWorkPeriods(hr.movements, startOfMonth(WorkYear, WorkMonth),
                                 endOfMonth(WorkYear, WorkMonth))
     IN last' = [op |-> "resolveWorkPeriods", periods |-> r.periods, remark |-> r.remark]
  /\ UNCHANGED <<requests, request_actions, eligibility, signatures,
                 periods, payouts, source, tx, locks, hr, redis, now>>

NextWorkPeriods == ResolveWorkPeriods

SpecWorkPeriods == InitWorkPeriods /\ [][NextWorkPeriods]_vars

\* SpecMonthly: the monthly calculation of one employee for the rows its
\* queries returned: eligibility rows with one rate, with a rate change inside
\* the month, starting inside the month or none; the employee in service all
\* month, leaving on any day of the month, entering inside the month or on
\* study leave; licences that are valid, lapse inside the month, are inactive
\* or valid for life; and leave on no day, on some days or on every day.
MonthDates == startOfMonth(WorkYear, WorkMonth)..endOfMonth(WorkYear, WorkMonth)
RateAmounts == {300000, 100003}
EligibilityRows ==
  { <<>>,
    <<[effective_date |-> 40, expiry_date |-> None, rate |-> 300000, rate_id |-> 1]>>,
    <<[effective_date |-> 1, expiry_date |-> Some(45), rate |-> 150000, rate_id |-> 1],
      [effective_date |-> 46, expiry_date |-> None, rate |-> 500000, rate_id |-> 2]>> }
  \cup { <<[effective_date |-> 1, expiry_date |-> None, rate |-> r, rate_id |-> 1]>> :
           r \in RateAmounts }
EntryBefore == [effective_date |-> 20, movement_type |-> "ENTRY"]
MonthlyMovements ==
  { <<>>, <<EntryBefore>>,
    <<[effective_date |-> 40, movement_type |-> "ENTRY"]>>,
    <<EntryBefore, [effective_date |-> 45, movement_type |-> "STUDY"]>>,
    <<EntryBefore, [effective_date |-> 40, movement_type |-> "TRANSFER_OUT"],
      [effective_date |-> 50, movement_type |-> "ENTRY"]>> }
  \cup { <<EntryBefore, [effective_date |-> k, movement_type |-> "RESIGN"]>> :
           k \in MonthDates }
  \cup { <<EntryBefore, [effective_date |-> 46, movement_type |-> t]>> :
           t \in ExitTypes }
LicenseRows ==
  { <<>>,
    <<[license_name |-> "nursing", status |-> "ACTIVE", valid_from |-> 1, valid_until |-> 360]>>,
    <<[license_name |-> "nursing", status |-> "active", valid_from |-> 1, valid_until |-> 45]>>,
    <<[license_name |-> "nursing", status |-> "EXPIRED", valid_from |-> 1, valid_until |-> 360]>>,
    <<[license_name |-> "lifetime", status |-> "EXPIRED", valid_from |-> 1, valid_until |-> 10]>> }
DeductionMaps ==
  { <<>>, (40 :> WEIGHT_ONE) @@ (41 :> WEIGHT_ONE) @@ (45 :> 1) @@ (50 :> 1),
    [d \in MonthDates |-> 1] }
PositionNames == {"", "lifetime"}

InitMonthly ==
  /\ requests = <<>>
  /\ request_actions = <<>>
  /\ eligibility = <<>>
  /\ signatures = Users \ {"dr2"}
  /\ last = Ok("init", 0)
  /\ periods = <<>>
  /\ payouts = <<>>
  /\ source = InitialSource
  /\ tx = NoCalls
  /\ locks = {}
  /\ redis = NoKeys
  /\ now = 0
  /\ hr \in [movements : MonthlyMovements, licenses : LicenseRows,
             deductions : DeductionMaps, position_name : PositionNames,
             eligibilities : EligibilityRows]

CalculateMonthly ==
  /\ LET r == monthlyCalculation(hr.eligibilities, hr, WorkYear, WorkMonth)
     IN last' = [op |-> "calculateMonthly", result |-> r.result, days |-> r.days]
  /\ UNCHANGED <<requests, request_actions, eligibility, signatures,
                 periods, payouts, source, tx, locks, hr, redis, now>>

NextMonthly == CalculateMonthly

SpecMonthly == InitMonthly /\ [][NextMonthly]_vars

\* SpecSync: two connections call performFullSync at any time, each call
\* advancing one statement at a time, while time passes in steps of half the
\* time the lock lives, up to MaxTime seconds.
MaxTime == 600
InitSync ==
  /\ requests = <<>>
  /\ request_actions = <<>>
  /\ eligibility = PayrollEligibility
  /\ signatures = Users \ {"dr2"}
  /\ last = Ok("init", 0)
  /\ periods = <<>>
  /\ payouts = <<>>
  /\ source = InitialSource
  /\ tx = NoCalls
  /\ locks = {}
  /\ hr = NoRecords
  /\ redis = NoKeys
  /\ now = 0

Tick ==
  /\ now < MaxTime
  /\ now' = now + LOCK_TTL_SECONDS \div 2
  /\ UNCHANGED <<requests, request_actions, eligibility, signatures, last,
                 periods, payouts, source, tx, locks, hr, redis>>
CallPerformFullSync == \E c \in Connections : BeginPerformFullSync(c)
StepSyncTransaction == \E c \in Connections : SyncTransaction(c)
StepSyncFailure == \E c \in Connections : SyncFailure(c)
StepSetSyncResult == \E c \in Connections : SetSyncResult(c)
StepReleaseLockGet == \E c \in Connections : ReleaseLockGet(c)
StepReleaseLockDel == \E c \in Connections : ReleaseLockDel(c)

NextSync ==
  \/ Tick
  \/ CallPerformFullSync
  \/ StepSyncTransaction
  \/ StepSyncFailure
  \/ StepSetSyncResult
  \/ StepReleaseLockGet
  \/ StepReleaseLockDel

SpecSync == InitSync /\ [][NextSync]_vars

\* SpecApprove: two connections call approveRequest at any time, by any user,
\* on the one request, submitted by the applicant and waiting at step 1, each
\* call advancing one statement at a time; calls begin while the action log of
\* the request holds fewer than MaxActions rows.
MaxActions == 8
SubmittedRequest ==
  [request_id |-> 1, user_id |-> "u1", citizen_id |-> CitizenOf("u1"),
   requested_amount |-> Some(1500), effective_date |-> Some(10),
   status |-> PENDING, current_step |-> 1]
InitApprove ==
  /\ requests = <<SubmittedRequest>>
  /\ request_actions = <<<<ActionRow(1, "u1", 1, SUBMIT, None, None)>>>>
  /\ eligibility = <<>>
  /\ signatures = Users \ {"dr2"}
  /\ last = Ok("init", 0)
  /\ periods = <<>>
  /\ payouts = <<>>
  /\ source = InitialSource
  /\ tx = NoCalls
  /\ locks = {}
  /\ redis = NoKeys
  /\ now = 0
  /\ hr = NoRecords

CallApproveRequest ==
  /\ Len(request_actions[1]) < MaxActions
  /\ \E c \in Connections, id \in RequestIdInputs, u \in Users, comment \in ApproveComments :
       BeginApproveRequest(c, id, u, Role[u], comment)
StepSelectRequest == \E c \in Connections : SelectRequest(c)
StepInsertApproveAction == \E c \in Connections : InsertApproveAction(c)
ReturnApproveRequest == \E c \in Connections : FinishApproveRequest(c)
StepDeadlockApproveRequest == \E c \in Connections : DeadlockApproveRequest(c)

NextApprove ==
  \/ CallApproveRequest
  \/ StepSelectRequest
  \/ StepInsertApproveAction
  \/ ReturnApproveRequest
  \/ StepDeadlockApproveRequest

SpecApprove == InitApprove /\ [][NextApprove]_vars

\* SpecRateChange: an employee holds the eligibility a first, approved request
\* created (1500.00 from EarlierDates) and a second request for 5000.00,
\* effective before, inside or after the month, waits at step 1; any user
\* calls approveRequest on either request and calculateMonthly is called for
\* the employee at any time.
EarlierDates == {1, 35}
RateChangeDates == {20, 31, 32, 45, 60, 61}
EarlierRequest(d) ==
  [request_id |-> 1, user_id |-> "u1", citizen_id |-> CitizenOf("u1"),
   requested_amount |-> Some(1500), effective_date |-> Some(d),
   status |-> APPROVED, current_step |-> 6]
RateChangeRequest(d) ==
  [request_id |-> 2, user_id |-> "u1", citizen_id |-> CitizenOf("u1"),
   requested_amount |-> Some(5000), effective_date |-> Some(d),
   status |-> PENDING, current_step |-> 1]
InitRateChange ==
  /\ \E e \in EarlierDates, d \in RateChangeDates :
       LET approved == finalizeRequest([EmptyTables EXCEPT !.requests = <<EarlierRequest(e)>>], 1)
       IN /\ requests = Append(approved.db.requests, RateChangeRequest(d))
          /\ eligibility = approved.db.eligibility
  /\ request_actions = << <<>>, <<ActionRow(2, "u1", 1, SUBMIT, None, None)>> >>
  /\ signatures = Users \ {"dr2"}
  /\ last = Ok("init", 0)
  /\ periods = <<>>
  /\ payouts = <<>>
  /\ source = InitialSource
  /\ tx = NoCalls
  /\ locks = {}
  /\ redis = NoKeys
  /\ now = 0
  /\ hr \in [movements : {<<EntryBefore>>,
                          <<EntryBefore, [effective_date |-> 50, movement_type |-> "RESIGN"]>>},
             licenses : {<<[license_name |-> "nursing", status |-> "ACTIVE",
                            valid_from |-> 1, valid_until |-> 360]>>},
             deductions : {<<>>, (40 :> WEIGHT_ONE) @@ (45 :> 1)},
             position_name : {""},
             eligibilities : {<<>>}]

CalculateCitizenMonth ==
  /\ LET r == calculateMonthly(CitizenOf("u1"), WorkYear, WorkMonth)
     IN last' = [op |-> "calculateMonthly", result |-> r.result, days |-> r.days]
  /\ UNCHANGED <<requests, request_actions, eligibility, signatures,
                 periods, payouts, source, tx, locks, hr, redis, now>>

NextRateChange ==
  \/ ApproveRequest
  \/ CalculateCitizenMonth

SpecRateChange == InitRateChange /\ [][NextRateChange]_vars

\* ======================================================================
\* Properties
\* ======================================================================
Stored == <<requests, request_actions, eligibility>>
Step(id) == requests[id].current_step
Status(id) == requests[id].status
LastRow(log) == log[Len(log)]

\* C1: approveRequest on a request whose status is not PENDING, or by an actor
\* whose role is not STEP_ROLE_MAP[current_step], fails with an error and leaves
\* the requests, the action log and the eligibility table as they were.
C1_ApproveGuarded ==
  [][\A a \in Users, c \in Comments :
       ( /\ last'.op = "approveRequest"
         /\ last'.id \in DOMAIN requests
         /\ approveRequest(last'.id, a, Role[a], c)
         /\ \/ Status(last'.id) # PENDING
            \/ Step(last'.id) \notin DOMAIN STEP_ROLE_MAP
            \/ STEP_ROLE_MAP[Step(last'.id)] # Role[a] )
       => (last'.err # OK /\ UNCHANGED Stored)]_vars

C1_Witness ==
  /\ last.op = "approveRequest"
  /\ last.id \in DOMAIN requests
  /\ Status(last.id) = REJECTED
  /\ last.err = "Cannot approve request with status"

\* the request was PENDING at a step of its last action's actor and moved on by one
Advanced(id) ==
  /\ Status(id) = PENDING
  /\ Step(id) \in 1..5
  /\ Role[LastRow(request_actions'[id]).actor_id] = STEP_ROLE_MAP[Step(id)]
  /\ IF Step(id) <= 4
     THEN /\ requests'[id].status = PENDING
          /\ requests'[id].current_step = Step(id) + 1
          /\ id \notin last'.finalized
     ELSE /\ requests'[id].status = APPROVED
          /\ requests'[id].current_step = 6
          /\ id \in last'.finalized

\* C2: a successful approve of a PENDING request at step s by the role of step
\* s leaves it PENDING at step s + 1 when s is 1..4 and APPROVED at step 6 when
\* s = 5; finalizeRequest is called in the s = 5 case and in no other, and only
\* then can an eligibility row be written, which is the row of that request.
C2_ApproveAdvances ==
  [][/\ (last'.op = "approveRequest" /\ last'.err = OK) => Advanced(last'.id)
     /\ (last'.op = "approveBatch" /\ last'.err = OK) =>
          \A i \in DOMAIN last'.success : Advanced(last'.success[i])
     /\ \A id \in last'.finalized : id \in DOMAIN requests /\ Step(id) = 5
     /\ eligibility' # eligibility =>
          /\ last'.finalized # {}
          /\ \A i \in DOMAIN eligibility' :
               i > Len(eligibility) => eligibility'[i].request_id \in last'.finalized]_vars

C2_Witness ==
  /\ last.op = "approveRequest"
  /\ last.err = OK
  /\ last.finalized = {last.id}
  /\ Status(last.id) = APPROVED
  /\ \E i \in DOMAIN eligibility : eligibility[i].request_id = last.id

\* C3 (as claimed): submitRequest by the owner on a RETURNED request succeeds
\* and puts it back to PENDING at step 1.
C3_ReturnedResubmits ==
  [][\A id \in DOMAIN requests :
       ( /\ last'.op = "submitRequest"
         /\ last'.id = id
         /\ Status(id) = RETURNED
         /\ submitRequest(id, requests[id].user_id) )
       => /\ last'.err = OK
          /\ requests'[id].status = PENDING
          /\ requests'[id].current_step = 1]_vars

\* C4: once a request is REJECTED or APPROVED, no call changes its row or
\* appends an action row for it.
C4_TerminalStatuses ==
  [][\A id \in DOMAIN requests :
       Status(id) \in {REJECTED, APPROVED}
       => /\ requests'[id] = requests[id]
          /\ request_actions'[id] = request_actions[id]]_vars

C4_Witness ==
  /\ last.op = "approveBatch"
  /\ last.err = OK
  /\ \E i \in DOMAIN last.failed :
       /\ last.failed[i].id \in DOMAIN requests
       /\ Status(last.failed[i].id) = REJECTED
       /\ Step(last.failed[i].id) = 4
       /\ last.failed[i].reason = "Status is not PENDING"

\* a comment with a character that is not a space; a missing, empty or
\* whitespace-only comment
NonBlank(c) == ~IsNull(c) /\ \E i \in DOMAIN Val(c) : Val(c)[i] # SP
Blank(c) == ~NonBlank(c)

\* C5: returnRequest on a PENDING request at step s, by the role of step s and
\* with a non-blank comment, makes it RETURNED at step s - 1 when s >= 2 and is
\* refused, with nothing stored changed, when s <= 1.
C5_ReturnStepsBack ==
  [][\A a \in Users, c \in Comments :
       ( /\ last'.op = "returnRequest"
         /\ last'.id \in DOMAIN requests
         /\ returnRequest(last'.id, a, Role[a], c)
         /\ Status(last'.id) = PENDING
         /\ Step(last'.id) \in DOMAIN STEP_ROLE_MAP
         /\ STEP_ROLE_MAP[Step(last'.id)] = Role[a]
         /\ NonBlank(c) )
       => IF Step(last'.id) >= 2
          THEN /\ last'.err = OK
               /\ requests'[last'.id].status = RETURNED
               /\ requests'[last'.id].current_step = Step(last'.id) - 1
          ELSE /\ last'.err # OK
               /\ UNCHANGED Stored]_vars

C5_Witness ==
  /\ last.op = "returnRequest"
  /\ last.err = OK
  /\ Status(last.id) = RETURNED
  /\ Step(last.id) = 2
  /\ LastRow(request_actions[last.id]).action = RETURN

\* C6: rejectRequest and returnRequest with a missing, empty or whitespace-only
\* comment fail and change nothing stored; approveRequest without a comment by
\* the signed approver of the step succeeds (at step 5 it can fail only inside
\* finalizeRequest) and logs a NULL comment.
C6_CommentRequired ==
  [][/\ \A a \in Users, c \in Comments :
          ( /\ Blank(c)
            /\ \/ last'.op = "rejectRequest" /\ rejectRequest(last'.id, a, Role[a], c)
               \/ last'.op = "returnRequest" /\ returnRequest(last'.id, a, Role[a], c) )
          => (last'.err # OK /\ UNCHANGED Stored)
     /\ \A a \in signatures :
          ( /\ last'.op = "approveRequest"
            /\ last'.id \in DOMAIN requests
            /\ approveRequest(last'.id, a, Role[a], None)
            /\ Status(last'.id) = PENDING
            /\ Step(last'.id) \in DOMAIN STEP_ROLE_MAP
            /\ STEP_ROLE_MAP[Step(last'.id)] = Role[a] )
          => /\ last'.err = OK \/ (Step(last'.id) = 5 /\ last'.finalized = {last'.id})
             /\ last'.err = OK => LastRow(request_actions'[last'.id]).comment = None]_vars

C6_Witness ==
  /\ last.op = "rejectRequest"
  /\ last.err = "Rejection reason is required"
  /\ Status(last.id) = PENDING

SingleOps == {"submitRequest", "approveRequest", "rejectRequest", "returnRequest"}
OpAction(op) ==
  CASE op = "submitRequest" -> SUBMIT
    [] op = "approveRequest" -> APPROVE
    [] op = "rejectRequest" -> REJECT
    [] op = "returnRequest" -> RETURN
    [] op = "approveBatch" -> APPROVE
Count(seq, x) == Cardinality({i \in DOMAIN seq : seq[i] = x})

\* C7: the action log only grows: a successful submit, approve, reject or return
\* appends exactly one row to the log of its request, with its own action type
\* and the step the request was at; a batch appends one APPROVE row per id in
\* success; a failed call appends nothing; earlier rows are never altered.
C7_ActionLog ==
  [][\A id \in DOMAIN requests :
       LET old == request_actions[id]
           new == request_actions'[id]
           appended ==
             IF last'.err # OK THEN 0
             ELSE IF last'.op \in SingleOps /\ last'.id = id THEN 1
             ELSE IF last'.op = "approveBatch" THEN Count(last'.success, id)
             ELSE 0
       IN /\ Len(new) = Len(old) + appended
          /\ SubSeq(new, 1, Len(old)) = old
          /\ appended > 0 =>
               /\ LastRow(new).request_id = id
               /\ LastRow(new).action = OpAction(last'.op)
               /\ LastRow(new).step_no = Step(id)]_vars

C7_Witness ==
  /\ last.op = "rejectRequest"
  /\ last.err = OK
  /\ Len(request_actions[last.id]) = 4
  /\ LastRow(request_actions[last.id]).action = REJECT
  /\ LastRow(request_actions[last.id]).step_no = 3

\* C8: an actor without a signature row never approves: approveRequest fails
\* and changes nothing stored, approveBatch throws with an empty success list
\* and nothing stored changed.
C8_SignatureRequired ==
  [][\A a \in Users \ signatures :
       /\ \A c \in Comments :
            (last'.op = "approveRequest" /\ approveRequest(last'.id, a, Role[a], c))
            => (last'.err # OK /\ UNCHANGED Stored)
       /\ \A c \in Comments :
            (last'.op = "approveBatch" /\ approveBatch(a, Role[a], last'.ids, c))
            => (last'.err # OK /\ last'.success = <<>> /\ UNCHANGED Stored)]_vars

C8_Witness ==
  /\ last.op = "approveBatch"
  /\ last.err = "Approver signature is required"
  /\ \E i \in DOMAIN last.ids :
       /\ last.ids[i] \in DOMAIN requests
       /\ Status(last.ids[i]) = PENDING
       /\ Step(last.ids[i]) = 4

\* C9: submitRequest by a user who does not own the request fails and changes
\* nothing stored; a successful submit leaves the request PENDING at step 1 and
\* appends one SUBMIT row at step 1 by the owner.
C9_SubmitByOwner ==
  [][/\ \A u \in Users :
          ( /\ last'.op = "submitRequest"
            /\ last'.id \in DOMAIN requests
            /\ submitRequest(last'.id, u)
            /\ requests[last'.id].user_id # u )
          => (last'.err # OK /\ UNCHANGED Stored)
     /\ (last'.op = "submitRequest" /\ last'.err = OK)
          => /\ last'.id \in DOMAIN requests
             /\ requests'[last'.id].status = PENDING
             /\ requests'[last'.id].current_step = 1
             /\ Len(request_actions'[last'.id]) = Len(request_actions[last'.id]) + 1
             /\ LastRow(request_actions'[last'.id]).action = SUBMIT
             /\ LastRow(request_actions'[last'.id]).step_no = 1
             /\ LastRow(request_actions'[last'.id]).actor_id = requests[last'.id].user_id]_vars

C9_Witness ==
  /\ last.op = "submitRequest"
  /\ last.err = "Request not found or you do not have permission"
  /\ last.id \in DOMAIN requests
  /\ Status(last.id) = DRAFT

Range(seq) == {seq[i] : i \in DOMAIN seq}
FailedReasons(failed, id) == {failed[i].reason : i \in {j \in DOMAIN failed : failed[j].id = id}}
CountFailed(failed, id) == Cardinality({i \in DOMAIN failed : failed[i].id = id})
\* no active master rate carries the positive requested amount
NoRateFor(id) ==
  /\ ~IsNull(requests[id].requested_amount)
  /\ Val(requests[id].requested_amount) > 0
  /\ ~\E r \in MasterRates : r.is_active /\ r.amount = Val(requests[id].requested_amount)

\* C10: a batch run by the signed approver of step k (4 or 5) settles every id
\* on its own: an id that is PENDING at step k and whose finalization does not
\* throw is advanced by one step, gets one APPROVE row and is listed once in
\* success (a repeated occurrence of it is listed in failed); every other id
\* (missing, at another step, not PENDING, or failing in finalizeRequest) is
\* listed in failed with its reason once per occurrence and its row and log are
\* unchanged, whatever happened to the other ids of the batch.
C10_BatchPartialResults ==
  [][(last'.op = "approveBatch" /\ last'.err = OK) =>
       LET k == CHOOSE s \in {4, 5} : STEP_ROLE_MAP[s] = last'.role
           ids == last'.ids
       IN /\ last'.role \in {STEP_ROLE_MAP[4], STEP_ROLE_MAP[5]}
          /\ Len(last'.success) + Len(last'.failed) = Len(ids)
          /\ \A id \in Range(ids) :
               IF id \notin DOMAIN requests
               THEN /\ Count(last'.success, id) = 0
                    /\ CountFailed(last'.failed, id) = Count(ids, id)
                    /\ FailedReasons(last'.failed, id) = {"Request not found"}
               ELSE IF Status(id) = PENDING /\ Step(id) = k /\ ~(k = 5 /\ NoRateFor(id))
               THEN /\ Count(last'.success, id) = 1
                    /\ CountFailed(last'.failed, id) = Count(ids, id) - 1
                    /\ requests'[id].current_step = k + 1
                    /\ requests'[id].status = IF k = 5 THEN APPROVED ELSE PENDING
                    /\ Len(request_actions'[id]) = Len(request_actions[id]) + 1
               ELSE /\ Count(last'.success, id) = 0
                    /\ CountFailed(last'.failed, id) = Count(ids, id)
                    /\ FailedReasons(last'.failed, id) =
                         {IF Step(id) # k THEN "Not at Step"
                          ELSE IF Status(id) # PENDING THEN "Status is not PENDING"
                          ELSE "Database error or Finalization failed"}
                    /\ requests'[id] = requests[id]
                    /\ request_actions'[id] = request_actions[id]]_vars

\* C10 witness: a finalization failure listed first, and the next id of the
\* same batch approved
C10_Witness ==
  /\ last.op = "approveBatch"
  /\ last.err = OK
  /\ Len(last.ids) = 2
  /\ Len(last.failed) = 1
  /\ last.failed[1].id = last.ids[1]
  /\ last.failed[1].reason = "Database error or Finalization failed"
  /\ last.success = <<last.ids[2]>>
  /\ Status(last.ids[1]) = PENDING
  /\ Status(last.ids[2]) = APPROVED
\* the ids of a batch that are PENDING at the given step
PendingAt(ids, step) ==
  {id \in Range(ids) : id \in DOMAIN requests /\ Status(id) = PENDING /\ Step(id) = step}

\* C11 (as claimed): through POST /batch-approve a DIRECTOR with a signature
\* moves the listed requests that are PENDING at step 4 to step 5, a
\* HEAD_FINANCE user with a signature turns the listed requests that are
\* PENDING at step 5 (and have a master rate) into APPROVED ones with
\* finalizeRequest called, and a user of any other role is refused with the
\* tables left as they were.
C11_BatchEndpointRoles ==
  [][\A u \in Users, ids \in EndpointRequestIdLists, c \in BatchComments :
       (last'.op = "approveBatch" /\ last'.ids = ids /\ postBatchApprove(u, ids, c))
       => /\ Role[u] \notin {"DIRECTOR", "HEAD_FINANCE"}
               => (last'.err # OK /\ UNCHANGED Stored)
          /\ (Role[u] = "DIRECTOR" /\ u \in signatures)
               => \A id \in PendingAt(ids, 4) :
                    requests'[id].status = PENDING /\ requests'[id].current_step = 5
          /\ (Role[u] = "HEAD_FINANCE" /\ u \in signatures)
               => \A id \in PendingAt(ids, 5) :
                    /\ id \in last'.finalized
                    /\ ~NoRateFor(id) => requests'[id].status = APPROVED]_vars

\* the requested amount finalizeRequest cannot resolve to a master rate: absent,
\* zero or negative, or carried by no active master rate
Unfinalizable(id) ==
  \/ IsNull(requests[id].requested_amount)
  \/ Val(requests[id].requested_amount) <= 0
  \/ NoRateFor(id)
\* the call reported the approval of id as failed
ReportedFailed(res, id) ==
  IF res.op = "approveBatch"
  THEN res.err # OK \/ \E i \in DOMAIN res.failed : res.failed[i].id = id
  ELSE res.err # OK
HasEligibilityOf(rows, id) == \E i \in DOMAIN rows : rows[i].request_id = id

\* C12 (as claimed): when the step-5 approval (single or batch) reaches
\* finalizeRequest for a request whose requested_amount is absent, zero or
\* negative, or has no active master rate, the approval is reported as failed
\* and the request is not APPROVED afterwards; and a request that becomes
\* APPROVED has an eligibility row created from it.
C12_FinalizationFailsLoudly ==
  [][\A id \in DOMAIN requests :
       /\ (id \in last'.finalized /\ Unfinalizable(id))
            => (ReportedFailed(last', id) /\ requests'[id].status # APPROVED)
       /\ (Status(id) # APPROVED /\ requests'[id].status = APPROVED)
            => HasEligibilityOf(eligibility', id)]_vars

\* C13: when finalizeRequest throws during the step-5 approval of a request
\* (approveRequest or one id of approveBatch), the call reports the failure,
\* the request is still PENDING at step 5 with the action log it had, and no
\* eligibility row is deactivated or inserted for it: the rows written for
\* other ids of the same batch aside, the eligibility table is as before.
C13_FinalApprovalAtomic ==
  [][\A id \in last'.finalized :
       (ReportedFailed(last', id) /\ id \notin Range(last'.success))
       => /\ requests'[id] = requests[id]
          /\ requests'[id].status = PENDING
          /\ requests'[id].current_step = 5
          /\ request_actions'[id] = request_actions[id]
          /\ ~HasEligibilityOf(eligibility', id)
          /\ (last'.success = <<>>) => eligibility' = eligibility]_vars

C13_Witness ==
  /\ last.op = "approveRequest"
  /\ last.finalized = {last.id}
  /\ last.err = "Master Rate not found"
  /\ Status(last.id) = PENDING
  /\ Step(last.id) = 5
  /\ eligibility = <<>>

\* the dates an eligibility row covers: from effective_date to expiry_date,
\* open-ended when expiry_date is NULL
Covers(e, d) == e.effective_date <= d /\ (IsNull(e.expiry_date) \/ d <= Val(e.expiry_date))
CalendarDates == 1..30

\* C14 (as claimed): no date is covered by two active eligibility rows of the
\* same citizen, whatever the order of the effective dates of the approved
\* requests.
C14_EligibilityExclusive ==
  \A i, j \in DOMAIN eligibility :
    ( /\ i < j
      /\ eligibility[i].citizen_id = eligibility[j].citizen_id
      /\ eligibility[i].is_active
      /\ eligibility[j].is_active )
    => ~\E d \in CalendarDates : Covers(eligibility[i], d) /\ Covers(eligibility[j], d)

\* the status an action is valid from and the status it leads to
ValidFrom(action) ==
  CASE action = "SUBMIT" -> OPEN
    [] action = "APPROVE_HR" -> WAITING_HR
    [] action = "APPROVE_DIRECTOR" -> WAITING_DIRECTOR
LeadsTo(action) ==
  CASE action = "SUBMIT" -> WAITING_HR
    [] action = "APPROVE_HR" -> WAITING_DIRECTOR
    [] action = "APPROVE_DIRECTOR" -> CLOSED

\* C15: SUBMIT, APPROVE_HR and APPROVE_DIRECTOR succeed only from OPEN,
\* WAITING_HR and WAITING_DIRECTOR, leading to WAITING_HR, WAITING_DIRECTOR and
\* CLOSED; only the last one sets closed_at; from any other status the action
\* fails with an error naming the action and the status, and the period row
\* (status and closed_at included) is left as it was.
C15_PeriodTransitionsGuarded ==
  [][\A id \in DOMAIN periods, action \in {"SUBMIT", "APPROVE_HR", "APPROVE_DIRECTOR"} :
       (last'.op = "updatePeriodStatus" /\ last'.id = id /\ updatePeriodStatus(id, action))
       => IF periods[id].status = ValidFrom(action)
          THEN /\ last'.err = OK
               /\ periods'[id].status = LeadsTo(action)
               /\ periods'[id].closed_at =
                    IF action = "APPROVE_DIRECTOR" THEN Some("NOW") ELSE periods[id].closed_at
          ELSE /\ last'.err = "Invalid action '" \o action \o "' for status '"
                                \o periods[id].status \o "'"
               /\ periods' = periods]_vars

C15_Witness ==
  /\ last.op = "updatePeriodStatus"
  /\ last.id \in DOMAIN periods
  /\ last.err = "Invalid action 'SUBMIT' for status 'CLOSED'"
  /\ periods[last.id].status = CLOSED
  /\ periods[last.id].closed_at = Some("NOW")

\* C16 (as claimed): REJECT succeeds from WAITING_HR and WAITING_DIRECTOR and
\* leads to OPEN; on an OPEN or CLOSED period it fails and changes nothing; a
\* CLOSED period stays CLOSED under every action.
C16_RejectOnlyWhileWaiting ==
  [][\A id \in DOMAIN periods :
       /\ (last'.op = "updatePeriodStatus" /\ last'.id = id /\ updatePeriodStatus(id, "REJECT"))
            => IF periods[id].status \in {WAITING_HR, WAITING_DIRECTOR}
               THEN last'.err = OK /\ periods'[id].status = OPEN
               ELSE last'.err # OK /\ periods' = periods
       /\ periods[id].status = CLOSED => periods'[id].status = CLOSED]_vars

\* C17: processPeriodCalculation on a period that is WAITING_HR,
\* WAITING_DIRECTOR or CLOSED fails with an error and leaves the payout rows
\* with their items, total_amount and total_headcount as they were.
C17_RecalculationOnlyWhileOpen ==
  [][\A id \in DOMAIN periods :
       ( /\ last'.op = "processPeriodCalculation"
         /\ last'.id = id
         /\ processPeriodCalculation(id)
         /\ periods[id].status \in {WAITING_HR, WAITING_DIRECTOR, CLOSED} )
       => (last'.err # OK /\ payouts' = payouts /\ periods' = periods)]_vars

C17_Witness ==
  /\ last.op = "processPeriodCalculation"
  /\ last.id \in DOMAIN periods
  /\ last.err = "period is not OPEN"
  /\ periods[last.id].status = WAITING_DIRECTOR
  /\ Len(payouts) = 2
  /\ source[CitizenOf("u1")] = Nothing

\* what one run of the calculation over the current source data writes for a
\* period that has no payout rows
RunOnce(id) ==
  calculateLoop([payouts |-> <<>>, totalAmount |-> 0, headCount |-> 0, threw |-> FALSE], id,
                DistinctCitizens(eligibility,
                                 LAST_DAY(periods[id].period_year, periods[id].period_month), {}))
\* the period holds exactly what one run over the current source data writes
CalculatedOnce(id) ==
  /\ ~RunOnce(id).threw
  /\ payouts = RunOnce(id).payouts
  /\ periods[id].total_amount = RunOnce(id).totalAmount
  /\ periods[id].total_headcount = RunOnce(id).headCount

\* C18: when an OPEN period holds the result of one run over the current
\* source data, one more successful processPeriodCalculation leaves the payout
\* rows (citizens, amounts, day counts, items), total_amount and
\* total_headcount as they are.
C18_RecalculationIdempotent ==
  [][\A id \in DOMAIN periods :
       ( /\ last'.op = "processPeriodCalculation"
         /\ last'.id = id
         /\ last'.err = OK
         /\ processPeriodCalculation(id)
         /\ CalculatedOnce(id) )
       => (payouts' = payouts /\ periods' = periods)]_vars

C18_Witness ==
  /\ last.op = "processPeriodCalculation"
  /\ last.err = OK
  /\ last.id \in DOMAIN periods
  /\ CalculatedOnce(last.id)
  /\ Len(payouts) = 2
  /\ periods[last.id].total_headcount = 2

\* the citizens the run of a period iterates over
EligibleCitizens(id) ==
  Range(DistinctCitizens(eligibility,
                         LAST_DAY(periods[id].period_year, periods[id].period_month), {}))
HasPayout(rows, id, c) ==
  \E i \in DOMAIN rows : rows[i].period_id = id /\ rows[i].citizen_id = c

\* C19 (as claimed): after a successful recalculation an eligible citizen has
\* a payout row exactly when the net payment is nonzero or net payment plus
\* retroactive total is nonzero (a zero net with a negative retroactive total
\* included); a citizen with zero net and zero retro has none.
C19_PayoutIffNonZero ==
  [][\A id \in DOMAIN periods :
       ( /\ last'.op = "processPeriodCalculation"
         /\ last'.id = id
         /\ last'.err = OK
         /\ processPeriodCalculation(id) )
       => \A c \in EligibleCitizens(id) :
            HasPayout(payouts', id, c)
            <=> \/ source[c].netPayment # 0
                \/ source[c].netPayment + SumSeq(source[c].retroDetails) # 0]_vars

\* C20: when the calculation or the persistence of one citizen fails during
\* processPeriodCalculation, the payout rows with their items, total_amount
\* and total_headcount are what they were before the call: the rows deleted
\* and the rows inserted before the failure are restored.
C20_RecalculationAllOrNothing ==
  [][\A id \in DOMAIN periods :
       ( /\ last'.op = "processPeriodCalculation"
         /\ last'.id = id
         /\ processPeriodCalculation(id)
         /\ periods[id].status = OPEN
         /\ \E c \in EligibleCitizens(id) : source[c].fails # "" )
       => (last'.err # OK /\ payouts' = payouts /\ periods' = periods)]_vars

C20_Witness ==
  /\ last.op = "processPeriodCalculation"
  /\ last.err = "calculation failed"
  /\ last.id \in DOMAIN periods
  /\ Len(payouts) = 2
  /\ source[CitizenOf("hd")] = FailsCalculate
  /\ periods[last.id].total_headcount = 2


\* a call on connection c that has selected its row takes its last step
Finishes(c, op) == Call(c, "selected", op) /\ tx'[c].pc = "idle"
OnPeriod(c) == ~IsNull(tx[c].period)

\* C21: two connections running processPeriodCalculation and updatePeriodStatus
\* on one existing period are serialized by the row lock: the step in which a
\* call commits or rolls back is exactly the step of the whole call run alone
\* on the tables as they stand at that moment, the tables change in no other
\* step, and payout rows are written only for a period that is OPEN before and
\* after the write.
C21_PeriodCallsSerialized ==
  [][/\ \A c \in Connections :
          /\ (Finishes(c, "processPeriodCalculation") /\ OnPeriod(c))
               => processPeriodCalculation(tx[c].periodId)
          /\ (Finishes(c, "updatePeriodStatus") /\ OnPeriod(c))
               => updatePeriodStatus(tx[c].periodId, tx[c].action)
     /\ (<<periods, payouts>>' # <<periods, payouts>>)
          => \E c \in Connections : tx[c].pc = "selected" /\ tx'[c].pc = "idle"
     /\ (payouts' # payouts)
          => \E id \in DOMAIN periods :
               /\ periods[id].status = OPEN /\ periods'[id].status = OPEN
               /\ \A i \in DOMAIN payouts' : payouts'[i].period_id = id
    ]_vars

\* C21 witness: one connection holds the row of period 1 inside a
\* recalculation while the other has begun a call on the same period and
\* waits for the row, with payouts of an earlier run stored.
C21_Witness ==
  /\ Call("c1", "selected", "processPeriodCalculation")
  /\ OnPeriod("c1")
  /\ tx["c2"].pc = "begin"
  /\ tx["c2"].op \in {"processPeriodCalculation", "updatePeriodStatus"}
  /\ tx["c2"].periodId = tx["c1"].periodId
  /\ LockedByOther("c2", PeriodRow(tx["c2"].periodId))
  /\ payouts # <<>>

\* C22 (as claimed): every getOrCreatePeriod call, also one that runs while
\* another call for the same (year, month) is in flight, returns the one row
\* of that pair: when it returns, exactly one row exists for the pair, the call
\* did not fail and it returned that row, and a row it inserted is OPEN.
C22_OnePeriodRowReturned ==
  [][\A c \in Connections :
       Finishes(c, "getOrCreatePeriod") =>
         LET rows == SelectSeq(periods', LAMBDA p : p.period_month = tx[c].month
                                                     /\ p.period_year = tx[c].year)
         IN /\ Len(rows) = 1
            /\ last'.err = OK
            /\ last'.id = rows[1].period_id
            /\ (periods' # periods => periods'[Len(periods')].status = OPEN)
    ]_vars

\* C23: in every state reached by recalculations, getOrCreatePeriod, status
\* changes and synchronizations, a period holds at most one payout row per
\* citizen.
C23_OnePayoutPerCitizen ==
  \A i, j \in DOMAIN payouts :
    (payouts[i].period_id = payouts[j].period_id
       /\ payouts[i].citizen_id = payouts[j].citizen_id) => i = j

\* C23 witness: after a recalculation that followed a synchronization, the
\* period holds the rows of two citizens, one of them a citizen with two
\* active eligibility rows.
C23_Witness ==
  /\ last.op = "processPeriodCalculation"
  /\ last.err = OK
  /\ Len(payouts) = 2
  /\ source[CitizenOf("hd")] = PaidOverDeduct
  /\ HasPayout(payouts, last.id, CitizenOf("u1"))
  /\ Cardinality({i \in DOMAIN eligibility :
                    eligibility[i].citizen_id = CitizenOf("u1") /\ eligibility[i].is_active}) = 2

\* C24: for every list of movements ordered by effective_date and the month,
\* the periods resolveWorkPeriods returns are sorted by start date, no day
\* lies in two of them, and every start and every end lies between the first
\* and the last day of the month.
C24_WorkPeriodsInsideMonth ==
  last.op = "resolveWorkPeriods" =>
    LET ps == last.periods
        monthStart == startOfMonth(WorkYear, WorkMonth)
        monthEnd == endOfMonth(WorkYear, WorkMonth)
    IN /\ \A i \in DOMAIN ps :
            /\ monthStart <= ps[i].start /\ ps[i].start <= monthEnd
            /\ monthStart <= ps[i].end /\ ps[i].end <= monthEnd
       /\ \A i, j \in DOMAIN ps :
            i < j => /\ ps[i].start <= ps[j].start
                     /\ ~\E d \in monthStart..monthEnd :
                           /\ ps[i].start <= d /\ d <= ps[i].end
                           /\ ps[j].start <= d /\ d <= ps[j].end

\* C24 witness: an employee active before the month leaves on one day and
\* enters again on that very day: two periods, the second starting the day
\* after the first ends.
C24_Witness ==
  /\ last.op = "resolveWorkPeriods"
  /\ Len(last.periods) = 2
  /\ last.periods[1].start = startOfMonth(WorkYear, WorkMonth)
  /\ last.periods[2].start = last.periods[1].end + 1
  /\ last.periods[2].end = endOfMonth(WorkYear, WorkMonth)

\* what the employee of the state is to the pro-rata rule: in service since
\* before the month, one eligibility row of one rate over the whole month, a
\* licence valid on every day, no leave
OneRate ==
  /\ Len(hr.eligibilities) = 1
  /\ hr.eligibilities[1].effective_date <= startOfMonth(WorkYear, WorkMonth)
  /\ IsNull(hr.eligibilities[1].expiry_date)
LicensedAllMonth ==
  \A d \in MonthDates : checkLicense(hr.licenses, d, hr.position_name)
NoLeave == \A d \in MonthDates : d \notin DOMAIN hr.deductions \/ hr.deductions[d] = 0
\* cents is a rounding to hundredths of halves / (2 * days): no hundredth is nearer
RoundedQuotient(cents, halves, days) ==
  /\ 2 * days * cents - halves <= days
  /\ halves - 2 * days * cents <= days

\* C25: for an employee who entered before the month, with one eligibility of
\* rate R over the whole month, a valid licence on every day and no leave,
\* calculateMonthly returns eligible days = days in month and net payment = R
\* when the month holds no movement, and, when its only movement in the month
\* is an exit on day k, the days 1..k-1, k-1 eligible days and R*(k-1)/days in
\* month rounded to hundredths.
C25_ProRataPay ==
  (last.op = "calculateMonthly" /\ OneRate /\ LicensedAllMonth /\ NoLeave) =>
    LET R == hr.eligibilities[1].rate
        first == startOfMonth(WorkYear, WorkMonth)
        n == daysInMonth(WorkYear, WorkMonth)
        result == last.result
    IN /\ hr.movements = <<EntryBefore>> =>
            /\ result.eligibleDays = n * WEIGHT_ONE
            /\ result.netPayment = R
       /\ \A k \in MonthDates :
            ( /\ Len(hr.movements) = 2
              /\ hr.movements[1] = EntryBefore
              /\ hr.movements[2].effective_date = k
              /\ hr.movements[2].movement_type \in ExitTypes )
            => /\ [i \in DOMAIN last.days |-> last.days[i].date]
                    = [i \in 1..(k - first) |-> first + i - 1]
               /\ result.eligibleDays = (k - first) * WEIGHT_ONE
               /\ RoundedQuotient(result.netPayment, R * (k - first) * WEIGHT_ONE, n)

\* C25 witness: rate 3000.00 and a resignation on day 16 of the month: 15
\* eligible days and 1500.00.
C25_Witness ==
  /\ last.op = "calculateMonthly"
  /\ OneRate /\ LicensedAllMonth /\ NoLeave
  /\ hr.eligibilities[1].rate = 300000
  /\ hr.movements = <<EntryBefore, [effective_date |-> startOfMonth(WorkYear, WorkMonth) + 15,
                                    movement_type |-> "RESIGN"]>>
  /\ last.result.eligibleDays = 15 * WEIGHT_ONE
  /\ last.result.netPayment = 150000

\* C26: on every day of every work period, with a deduction weight between 0
\* and one day and any licence state, the eligible weight that day's pay is
\* multiplied by lies between 0 and one day: it is 0 when the licence is not
\* valid and one day minus the deduction weight otherwise.
C26_EligibleWeightBounded ==
  last.op = "calculateMonthly" =>
    \A i \in DOMAIN last.days :
      LET day == last.days[i]
      IN (0 <= day.deductionWeight /\ day.deductionWeight <= WEIGHT_ONE) =>
           /\ 0 <= day.eligibleWeight /\ day.eligibleWeight <= WEIGHT_ONE
           /\ ~day.hasLicense => day.eligibleWeight = 0
           /\ day.hasLicense => day.eligibleWeight = WEIGHT_ONE - day.deductionWeight

\* C26 witness: a month with a day without a valid licence and half a day of
\* leave, a licensed day with half a day of leave and a licensed day with a
\* whole day of leave.
C26_Witness ==
  /\ last.op = "calculateMonthly"
  /\ \E i, j, k \in DOMAIN last.days :
       /\ ~last.days[i].hasLicense /\ last.days[i].deductionWeight = 1
       /\ last.days[i].eligibleWeight = 0
       /\ last.days[j].hasLicense /\ last.days[j].deductionWeight = 1
       /\ last.days[j].eligibleWeight = 1
       /\ last.days[k].hasLicense /\ last.days[k].deductionWeight = WEIGHT_ONE
       /\ last.days[k].eligibleWeight = 0

\* the exact sum of rate / days in month * eligible weight over the days of
\* the loop, as a numerator over 2 * days in month (in hundredths)
RECURSIVE ExactHalves(_)
ExactHalves(days) ==
  IF days = <<>> THEN 0
  ELSE days[Len(days)].rate * days[Len(days)].eligibleWeight + ExactHalves(Front(days))
\* numerator / denominator rounded half up to a whole number
RoundHalfUp(numerator, denominator) == (2 * numerator + denominator) \div (2 * denominator)

\* C27 (as claimed): net payment is the exact sum over the worked days of
\* rate / days in month * eligible weight, rounded once, at the end, half up to
\* two decimal places.
C27_RoundedOnceHalfUp ==
  (last.op = "calculateMonthly" /\ last.days # <<>>) =>
    last.result.netPayment
      = RoundHalfUp(ExactHalves(last.days), WEIGHT_ONE * daysInMonth(WorkYear, WorkMonth))

\* A call is in the body of the synchronization from the moment it has set the
\* lock key until its transaction has committed or failed.
InSyncBody(c) == Call(c, "body", "performFullSync")
NoTwoSyncBodies ==
  \A c1, c2 \in Connections : InSyncBody(c1) /\ InSyncBody(c2) => c1 = c2
LockHeldFails(c) ==
  BeginPerformFullSync(c) /\ ~IsNull(redisGet(SYNC_LOCK_KEY))
    => /\ last' = Err("performFullSync", 0, ALREADY_IN_PROGRESS)
       /\ UNCHANGED <<requests, request_actions, eligibility, signatures,
                      periods, payouts, source, tx, locks, hr, redis>>
\* The second half of C28 alone: a call that finds the lock key set throws
\* 'already in progress' and changes nothing.
HeldLockRefuses == [][\A c \in Connections : LockHeldFails(c)]_vars

\* C28 (as claimed): full-system syncs are mutually exclusive: at no time are
\* two performFullSync calls in the body of the synchronization, and a call
\* that finds the lock key set throws 'already in progress' and leaves the
\* data, the keys and the other calls as they are.
C28_SyncsMutuallyExclusive == []NoTwoSyncBodies /\ HeldLockRefuses

\* The APPROVE rows logged for a request at a step, and the eligibility rows
\* created for a request.
ApproveRows(requestId, s) ==
  {i \in DOMAIN request_actions[requestId] :
     /\ request_actions[requestId][i].action = APPROVE
     /\ request_actions[requestId][i].step_no = s}
EligibilityRowsOf(requestId) ==
  {i \in DOMAIN eligibility : eligibility[i].request_id = requestId}

\* C29 (as claimed): approveRequest calls running concurrently on a request
\* waiting at step s move it on by one step and log one APPROVE row for step
\* s: the log holds exactly one APPROVE row for every step the request has
\* passed and none for the others, and a request approved at step 5 has
\* exactly one eligibility row.
C29_ConcurrentApprovalsCountOnce ==
  \A requestId \in DOMAIN requests :
    /\ \A s \in DOMAIN STEP_ROLE_MAP :
         Cardinality(ApproveRows(requestId, s))
           = IF requests[requestId].current_step > s THEN 1 ELSE 0
    /\ Cardinality(EligibilityRowsOf(requestId))
           = IF requests[requestId].status = APPROVED THEN 1 ELSE 0

\* pts_master_rates.amount of an eligibility row, in hundredths
RateOf(e) == (CHOOSE m \in MasterRates : m.rate_id = e.master_rate_id).amount * 100

\* C30 (as claimed): once the final approval of the second request, effective
\* on a day d after the first day of the month and inside it, has superseded
\* the employee's earlier eligibility, calculateMonthly for that month takes
\* the earlier eligibility's rate on the worked days before d (from the day
\* the earlier eligibility starts) and the new rate on the worked days from d
\* on.
C30_MidMonthRateChange ==
  LET d == Val(requests[2].effective_date)
  IN (/\ last.op = "calculateMonthly"
      /\ requests[2].status = APPROVED
      /\ startOfMonth(WorkYear, WorkMonth) < d /\ d <= endOfMonth(WorkYear, WorkMonth)
      /\ eligibility[1].effective_date <= d
      /\ Len(eligibility) = 2) =>
       \A i \in DOMAIN last.days :
         LET day == last.days[i]
         IN /\ day.date >= d => day.rate = RateOf(eligibility[2])
            /\ (eligibility[1].effective_date <= day.date /\ day.date < d)
                 => day.rate = RateOf(eligibility[1])

\* C31 (as claimed): every eligibility row is a well-formed interval: after
\* any sequence of approved requests, two requests of one citizen with the
\* same effective_date included, each row has no expiry_date or an
\* expiry_date on or after its effective_date.
C31_EligibilityIntervalsWellFormed ==
  \A i \in DOMAIN eligibility :
    \/ IsNull(eligibility[i].expiry_date)
    \/ Val(eligibility[i].expiry_date) >= eligibility[i].effective_date

\* C32 (as claimed): in every reachable state of a payroll period closed_at
\* is set exactly when the status is CLOSED: a period that is OPEN, WAITING_HR
\* or WAITING_DIRECTOR has no closed_at.
C32_ClosedAtIffClosed ==
  \A id \in DOMAIN periods :
    ~IsNull(periods[id].closed_at) <=> periods[id].status = CLOSED

\* the movements of the list that fall inside the month
InWorkMonth(mov) ==
  /\ startOfMonth(WorkYear, WorkMonth) <= mov.effective_date
  /\ mov.effective_date <= endOfMonth(WorkYear, WorkMonth)
StudiesInMonth ==
  {i \in DOMAIN hr.movements :
     hr.movements[i].movement_type = "STUDY" /\ InWorkMonth(hr.movements[i])}

\* C33: a STUDY movement inside the month ends the month: no returned period
\* holds a day on or after the STUDY date, the remark is the study-leave
\* remark, and every returned period is one that an exit movement listed
\* before the STUDY closed the day before that exit: the stretch open at the
\* STUDY is dropped, not closed at the day before it, and no movement listed
\* after the STUDY, a later ENTRY included, opens a period.
C33_StudyEndsMonth ==
  (last.op = "resolveWorkPeriods" /\ StudiesInMonth # {}) =>
    /\ last.remark = STUDY_REMARK
    /\ \A s \in StudiesInMonth : \A i \in DOMAIN last.periods :
         /\ last.periods[i].end < hr.movements[s].effective_date
         /\ \E k \in 1..(s - 1) :
              /\ hr.movements[k].movement_type \in ExitTypes
              /\ InWorkMonth(hr.movements[k])
              /\ last.periods[i].end = hr.movements[k].effective_date - 1

\* C33 witness: an employee in service since before the month goes on study
\* leave on day 45 and an ENTRY follows on day 60: no period at all.
C33_Witness ==
  /\ last.op = "resolveWorkPeriods"
  /\ hr.movements = <<[effective_date |-> 20, movement_type |-> "ENTRY"],
                      [effective_date |-> 45, movement_type |-> "STUDY"],
                      [effective_date |-> 60, movement_type |-> "ENTRY"]>>
  /\ last.periods = <<>>
  /\ last.remark = STUDY_REMARK

\* the rows returned by the eligibility query that cover a day, the iterated
\* days some row covers, and the first row, in the order of the query, that
\* covers the last of those days
Covering(d) == {i \in DOMAIN hr.eligibilities : Covers(hr.eligibilities[i], d)}
DaysWithEligibility == {i \in DOMAIN last.days : Covering(last.days[i].date) # {}}
Least(S) == CHOOSE x \in S : \A y \in S : x <= y
Greatest(S) == CHOOSE x \in S : \A y \in S : y <= x
LastEligibility ==
  hr.eligibilities[Least(Covering(last.days[Greatest(DaysWithEligibility)].date))]
SnapshotOfLastEligibility ==
  IF DaysWithEligibility = {}
  THEN last.result.masterRateId = None /\ last.result.rateSnapshot = 0
  ELSE /\ last.result.masterRateId = Some(LastEligibility.rate_id)
       /\ last.result.rateSnapshot = LastEligibility.rate

C35_RequestWellFormed ==
  \A id \in DOMAIN requests :
    LET status == requests[id].status
        step == requests[id].current_step
    IN /\ step \in 1..6
       /\ status = APPROVED <=> step = 6
       /\ status = PENDING => step \in 1..5
       /\ status = DRAFT => step = 1
       /\ status = RETURNED => step \in 1..4

\* C35 witness: a request approved at all five steps stands at step 6.
C35_Witness ==
  \E id \in DOMAIN requests :
    /\ requests[id].status = APPROVED
    /\ requests[id].current_step = 6
    /\ \A s \in DOMAIN STEP_ROLE_MAP :
         \E i \in DOMAIN request_actions[id] :
           request_actions[id][i].action = APPROVE /\ request_actions[id][i].step_no = s

\* C36: every period returned by resolveWorkPeriods is non-empty, its start
\* not after its end, for every movement list, a list with an ENTRY and an
\* exit movement effective on the same day of the month included.
C36_PeriodsNonEmpty ==
  last.op = "resolveWorkPeriods" =>
    \A i \in DOMAIN last.periods : last.periods[i].start <= last.periods[i].end

\* the payout rows of one period and the sum of their total_payable
PayoutRowsOf(rows, id) == SelectSeq(rows, LAMBDA p : p.period_id = id)
TotalPayableOf(rows, id) ==
  SumSeq([i \in DOMAIN PayoutRowsOf(rows, id) |-> PayoutRowsOf(rows, id)[i].total_payable])

\* C37: after every successful processPeriodCalculation the period's
\* total_headcount is the number of payout rows of the period and its
\* total_amount is the sum of their total_payable.
C37_TotalsMatchPayoutRows ==
  [][\A id \in DOMAIN periods :
       ( /\ last'.op = "processPeriodCalculation"
         /\ last'.id = id
         /\ last'.err = OK
         /\ processPeriodCalculation(id) )
       => /\ periods'[id].total_headcount = Len(PayoutRowsOf(payouts', id))
          /\ periods'[id].total_amount = TotalPayableOf(payouts', id)]_vars

\* C37 witness: a successful run that paid two citizens, one of them with
\* retroactive deductions larger than the net payment: two rows, head count
\* 2, and a total of 100 + (100 - 200) = 0.
C37_Witness ==
  /\ last.op = "processPeriodCalculation"
  /\ last.err = OK
  /\ last.id \in DOMAIN periods
  /\ source[CitizenOf("u1")] = Paid
  /\ source[CitizenOf("hd")] = PaidOverDeduct
  /\ Len(PayoutRowsOf(payouts, last.id)) = 2
  /\ periods[last.id].total_headcount = 2
  /\ periods[last.id].total_amount = TotalPayableOf(payouts, last.id)
  /\ periods[last.id].total_amount = 0

\* the lock key holds, unexpired, a value other than the one call c wrote
HoldsLockOfAnotherRun(c) ==
  /\ ~IsNull(redisGet(SYNC_LOCK_KEY))
  /\ redisGet(SYNC_LOCK_KEY) # Some(tx[c].lockValue)

\* C38 (as claimed): a sync run releases only its own lock: the delete of
\* releaseLock never removes or changes a lock value written by another
\* performFullSync run, also when the run's own lock expired after
\* LOCK_TTL_SECONDS and another run acquired the lock between releaseLock's
\* read and its delete.
C38_ReleasesOnlyOwnLock ==
  [][\A c \in Connections :
       (ReleaseLockDel(c) /\ HoldsLockOfAnotherRun(c))
         => redis'[SYNC_LOCK_KEY] = redis[SYNC_LOCK_KEY]]_vars

====
